---- MODULE Spec2Model ----
(***************************************************************************)
(* Model of the deer-flow research workflow (src/src/graph/nodes.py):      *)
(* the token estimator, the context window manager (truncate_context),     *)
(* the step executor (_execute_agent_step) and the planner /               *)
(* human_feedback / research_team stages; and of the generator of the      *)
(* event stream (src/src/server/app.py, _astream_workflow_generator).      *)
(*                                                                         *)
(* Text is a sequence of characters.  A character is a one-element string; *)
(* a CJK character and the backtick are written by their code point       *)
(* ("U5167" is U+5167, "U0060" is the backtick).                           *)
(***************************************************************************)
EXTENDS Integers, Sequences, FiniteSets, TLC

VARIABLES
    tc_messages,     \* truncate_context: the argument messages
    tc_max_tokens,   \* truncate_context: the argument max_tokens
    tc_result,       \* truncate_context: the returned list (entries, see Entry)
    tc_pc,           \* "call" before the call, "done" after it
    \* ---- one run of the workflow graph ----
    stage,           \* the node that runs next; "end" and "error" are final
    raised,          \* the exception the run ended with ("none" if none)
    suspended,       \* human_feedback is waiting in interrupt()
    resume_value,    \* the value of a Command(resume=...) not yet consumed, else None
    \* the State of the run
    state_messages,  \* state["messages"]
    plan_iterations,
    current_plan,
    observations,
    final_report,
    locale,
    research_topic,
    background_investigation_results,
    auto_accepted_plan,
    enable_background_investigation,
    \* the run's configuration
    max_plan_iterations,
    MAX_CONTEXT_TOKENS,  \* the context budget (nodes.py, read from the environment)
    record_history,  \* TRUE: messages, observations and the counters of the run
                     \* are kept whole; FALSE: messages and observations are
                     \* kept as far as the code reads them back (the last 5 and
                     \* the last 3) and the counters are not kept, which makes
                     \* the states of an endless run finitely many
    \* _execute_agent_step, between its agent invocations
    exec_pc,         \* "idle", "invoke" (in the retry loop) or "final" (last attempt)
    current_step,    \* index of the claimed step, 0 if none
    retry_count,
    agent_input,     \* agent_input["messages"]: the contents of the payload's
                     \* messages, the primary message first
    \* history of the run, kept for the properties
    agent_calls,     \* agent.ainvoke calls of the current executor invocation
    exec_failures,   \* the exceptions the agent raised in it, in order, each by its
                     \* class: "context" (context length exceeded) or "other"
    exec_outcome,    \* how the last executor invocation ended
    res_writes,      \* per step of current_plan: assignments to execution_res
    exec_calls,      \* executor invocations of the run
    edits,           \* [EDIT_PLAN] decisions of the run
    planner_output,  \* the full_response of the last planning model call
    planner_calls,   \* how many times the planning model was invoked
    \* ---- one call of _astream_workflow_generator (server/app.py) ----
    gen_pc,          \* "idle"; "start"; "pull" (awaiting the next item of
                     \* graph.astream); "yield" (suspended at a yield); "done"
                     \* (returned); "raised" (left by an exception of
                     \* graph.astream); "closed" (closed by the client)
    consumed,        \* the items graph.astream has delivered, in order
    events,          \* the events yielded to the client, in order
    thread_registry, \* the thread ids that have a thread logger
    current_context, \* the thread id of the current thread context, or NoContext
    found_context    \* history: the context that was current when the latest
                     \* item of the stream arrived

tcvars == <<tc_messages, tc_max_tokens, tc_result, tc_pc>>

statevars == <<state_messages, plan_iterations, current_plan, observations, final_report,
               locale, research_topic, background_investigation_results,
               auto_accepted_plan, enable_background_investigation>>

execvars == <<exec_pc, current_step, retry_count, agent_input>>

histvars == <<agent_calls, exec_failures, exec_outcome, res_writes, exec_calls, edits,
              planner_output, planner_calls>>

streamvars == <<gen_pc, consumed, events, thread_registry, current_context,
                found_context>>

wfvars == <<stage, raised, suspended, resume_value, statevars, max_plan_iterations,
            MAX_CONTEXT_TOKENS, record_history, execvars, histvars>>

(***************************************************************************)
(* Bounds of the model.                                                    *)
(***************************************************************************)
MaxMsgs == 3        \* longest message list handed to truncate_context
MaxBudget == 7      \* largest max_tokens handed to truncate_context
MaxPlanLimit == 1   \* largest max_plan_iterations a run is configured with
MaxEdits == 1       \* [EDIT_PLAN] decisions followed in one run
MaxExecCalls == 3   \* executor invocations followed in one run
MaxStream == 3      \* items of graph.astream followed in one generator call
MaxPayloadBudget == 6   \* the small context budgets tried are 0, 10, ..., 10 * MaxPayloadBudget

(***************************************************************************)
(* Characters and text.                                                    *)
(***************************************************************************)
\* the characters in the range U+4E00..U+9FFF used by the model
CJKChars == {"U4E2D", "U5167", "U5BB9", "U5DF2", "U622A", "U65B7",
             "U7576", "U524D", "U4EFB", "U52D9", "U539F", "U5B57", "U5BDF",
             "U5EA6", "U63CF", "U7B26", "U7C21", "U8981", "U89C0", "U8FF0",
             "U9577"}

IsCJK(c) == c \in CJKChars

\* str.lower() on one character (the upper-case letters the model uses)
LowerChar(c) ==
    CASE c = "T" -> "t"
      [] c = "S" -> "s"
      [] c = "D" -> "d"
      [] c = "C" -> "c"
      [] OTHER -> c

Lower(s) == [i \in 1..Len(s) |-> LowerChar(s[i])]

\* sub in s
Contains(s, sub) ==
    \E i \in 0..(Len(s) - Len(sub)) : SubSeq(s, i + 1, i + Len(sub)) = sub

\* s[:n]
Prefix(s, n) == SubSeq(s, 1, IF n < Len(s) THEN n ELSE Len(s))

Rep(c, n) == [i \in 1..n |-> c]

\* s[-n:]
LastN(s, n) == IF Len(s) <= n THEN s ELSE SubSeq(s, Len(s) - n + 1, Len(s))

CountCJK(s) == Cardinality({i \in 1..Len(s) : IsCJK(s[i])})

\* three backticks (U+0060)
CodeFence == <<"U0060", "U0060", "U0060">>
KwDef == <<"d", "e", "f", " ">>
KwClass == <<"c", "l", "a", "s", "s", " ">>

\* "\n\n[" + U+5167 U+5BB9 U+5DF2 U+622A U+65B7 + "...]"
TruncationMarker ==
    <<"\n", "\n", "[", "U5167", "U5BB9", "U5DF2", "U622A", "U65B7", ".", ".", ".", "]">>

\* "current task", U+7576 U+524D U+4EFB U+52D9, "title", "description"
TaskKeywords ==
    { <<"c", "u", "r", "r", "e", "n", "t", " ", "t", "a", "s", "k">>,
      <<"U7576", "U524D", "U4EFB", "U52D9">>,
      <<"t", "i", "t", "l", "e">>,
      <<"d", "e", "s", "c", "r", "i", "p", "t", "i", "o", "n">> }

SystemWord == <<"s", "y", "s", "t", "e", "m">>

(***************************************************************************)
(* estimate_tokens                                                         *)
(***************************************************************************)
has_code(text) ==
    Contains(text, CodeFence) \/ Contains(text, KwDef) \/ Contains(text, KwClass)

estimate_tokensMut(text) == Len(text) \div 4
estimate_tokens(text) ==
    IF text = <<>> THEN 0
    ELSE LET chinese_chars == CountCJK(text)
             english_chars == Len(text) - chinese_chars
         IN  IF has_code(text) THEN Len(text) \div 3
             ELSE IF chinese_chars > english_chars
                  THEN (2 * Len(text)) \div 3      \* int(len / 1.5)
                  ELSE Len(text) \div 4

(***************************************************************************)
(* truncate_context                                                        *)
(*                                                                         *)
(* A message is a record with the keys content, role and name.  The lists  *)
(* the function builds are lists of entries: a message together with the   *)
(* position in messages   of the message it was taken or derived from      *)
(* (src, which the code does not keep; it is what the ordering claims are  *)
(* about).                                                                 *)
(***************************************************************************)
RECURSIVE SumTokens(_)
SumTokens(msgs) ==
    IF msgs = <<>> THEN 0
    ELSE estimate_tokens(Head(msgs).content) + SumTokens(Tail(msgs))

\* total_tokens = sum(estimate_tokens(str(msg.get("content", ""))) ...)
total_tokens(messages) == SumTokens(messages)

WithinLimitMut(total, max_tokens) == total < max_tokens
\* if total_tokens <= max_tokens: return messages
WithinLimit(total, max_tokens) == total <= max_tokens

TargetTokensMut(max_tokens) == (17 * max_tokens) \div 10
\* target_tokens = int(max_tokens * TRUNCATION_RATIO), TRUNCATION_RATIO = 0.7
TargetTokens(max_tokens) == (7 * max_tokens) \div 10

\* if role == "system" or "system" in name.lower()
IsSystemMessage(msg) ==
    msg.role = "system" \/ Contains(Lower(msg.name), SystemWord)

\* elif any(keyword in content.lower() for keyword in [...])
HasTaskKeyword(msg) ==
    \E keyword \in TaskKeywords : Contains(Lower(msg.content), keyword)

\* the list the classification loop appends msg to
Classify(msg) ==
    IF IsSystemMessage(msg) THEN "system"
    ELSE IF HasTaskKeyword(msg) THEN "task"
    ELSE "other"

Entry(messages, i) == [msg |-> messages[i], src |-> i]

RECURSIVE SelectEntries(_, _, _)
\* the entries of messages[i..] classified as class, in order
SelectEntries(messages, i, class) ==
    IF i > Len(messages) THEN <<>>
    ELSE IF Classify(messages[i]) = class
         THEN <<Entry(messages, i)>> \o SelectEntries(messages, i + 1, class)
         ELSE SelectEntries(messages, i + 1, class)

system_messages(messages) == SelectEntries(messages, 1, "system")
task_messages(messages) == SelectEntries(messages, 1, "task")
other_messages(messages) == SelectEntries(messages, 1, "other")

ReversedMut(s) == s
RECURSIVE Reversed(_)
\* list(reversed(other_messages))
Reversed(s) == IF s = <<>> THEN <<>> ELSE Append(Reversed(Tail(s)), Head(s))

\* if msg_tokens > max_tokens_remaining * 0.8
TooLong(msg_tokens, max_tokens_remaining) == 5 * msg_tokens > 4 * max_tokens_remaining

\* content[: int(len(content) * 0.6)] + TruncationMarker
ShortenContent(content) ==
    Prefix(content, (3 * Len(content)) \div 5) \o TruncationMarker

\* if current_tokens + msg_tokens <= max_tokens_remaining
Fits(current_tokens, msg_tokens, max_tokens_remaining) ==
    current_tokens + msg_tokens <= max_tokens_remaining

RECURSIVE add_messages_if_fits(_, _, _)
\* acc is the pair of nonlocals (current_tokens, truncated_messages)
add_messages_if_fits(msg_list, max_tokens_remaining, acc) ==
    IF msg_list = <<>> THEN acc
    ELSE LET e == Head(msg_list)
             content == e.msg.content
             cut == TooLong(estimate_tokens(content), max_tokens_remaining)
             msg == IF cut THEN [e.msg EXCEPT !.content = ShortenContent(content)]
                    ELSE e.msg
             msg_tokens == estimate_tokens(msg.content)
         IN  IF Fits(acc.current_tokens, msg_tokens, max_tokens_remaining)
             THEN add_messages_if_fits(
                      Tail(msg_list), max_tokens_remaining,
                      [current_tokens |-> acc.current_tokens + msg_tokens,
                       truncated_messages |->
                           Append(acc.truncated_messages, [msg |-> msg, src |-> e.src])])
             ELSE acc      \* break

\* key=lambda x: messages.index(x) if x in messages else len(messages)
SortKey(messages, x) ==
    IF \E i \in 1..Len(messages) : messages[i] = x
    THEN (CHOOSE i \in 1..Len(messages) :
              /\ messages[i] = x
              /\ \A j \in 1..(i - 1) : messages[j] # x) - 1
    ELSE Len(messages)

RECURSIVE InsertByKey(_, _, _)
\* e goes after every entry whose key is <= its own (list.sort is stable)
InsertByKey(sorted, e, messages) ==
    IF sorted = <<>> THEN <<e>>
    ELSE IF SortKey(messages, Head(sorted).msg) <= SortKey(messages, e.msg)
         THEN <<Head(sorted)>> \o InsertByKey(Tail(sorted), e, messages)
         ELSE <<e>> \o sorted

RECURSIVE SortEntries(_, _, _)
SortEntries(entries, sorted, messages) ==
    IF entries = <<>> THEN sorted
    ELSE SortEntries(Tail(entries), InsertByKey(sorted, Head(entries), messages), messages)

truncate_context(messages, max_tokens) ==
    IF messages = <<>> THEN <<>>
    ELSE IF WithinLimit(total_tokens(messages), max_tokens)
    THEN [i \in 1..Len(messages) |-> Entry(messages, i)]
    ELSE LET target_tokens == TargetTokens(max_tokens)
             a0 == [current_tokens |-> 0, truncated_messages |-> <<>>]
             a1 == add_messages_if_fits(system_messages(messages), target_tokens, a0)
             a2 == add_messages_if_fits(task_messages(messages),
                                        target_tokens - a1.current_tokens, a1)
             a3 == add_messages_if_fits(Reversed(other_messages(messages)),
                                        target_tokens - a2.current_tokens, a2)
         IN  SortEntries(a3.truncated_messages, <<>>, messages)

\* the returned list, as the caller sees it
Messages(entries) == [i \in 1..Len(entries) |-> entries[i].msg]

(***************************************************************************)
(* Inputs of the truncate_context specification.                           *)
(***************************************************************************)
TitleWord == <<"t", "i", "t", "l", "e">>

Contents ==
    { <<>>,
      Rep("a", 2),
      Rep("a", 4),
      Rep("a", 12),
      Rep("a", 24),
      TitleWord,
      <<"T", "i", "t", "l", "e">> \o Rep("a", 11),
      Rep("U4E2D", 6),
      Rep("a", 9) \o CodeFence }

Msg(content, role, name) == [content |-> content, role |-> role, name |-> name]

InputMessages ==
    {Msg(c, "user", <<>>) : c \in Contents}
        \cup {Msg(Rep("a", 12), "system", <<>>),
              Msg(Rep("a", 24), "assistant", <<"S", "y", "s", "t", "e", "m">>)}

InputLists == UNION {[1..n -> InputMessages] : n \in 0..MaxMsgs}

(***************************************************************************)
(* The workflow graph: values of the State.                                *)
(***************************************************************************)
\* Python's None where a text may stand (it is no text: its element is no character)
None == <<"<None>">>

\* `not x` for x a text or None
Falsy(x) == x = None \/ x = <<>>

UpperChar(c) ==
    CASE c = "a" -> "A" [] c = "c" -> "C" [] c = "d" -> "D" [] c = "e" -> "E"
      [] c = "i" -> "I" [] c = "l" -> "L" [] c = "n" -> "N" [] c = "p" -> "P"
      [] c = "t" -> "T" [] c = "b" -> "B" [] OTHER -> c

\* str.upper()
Upper(s) == [i \in 1..Len(s) |-> UpperChar(s[i])]

\* str.startswith()
StartsWith(s, prefix) ==
    Len(s) >= Len(prefix) /\ SubSeq(s, 1, Len(prefix)) = prefix

EditPlanTag == <<"[", "E", "D", "I", "T", "_", "P", "L", "A", "N", "]">>
AcceptedTag == <<"[", "A", "C", "C", "E", "P", "T", "E", "D", "]">>

\* the user's query, messages[-1]["content"] of the request
UserQuery == <<"q">>

\* the messages of the request
RequestMessages == <<[role |-> "user", content |-> UserQuery]>>

\* the values of the two options of an interrupt event
EditPlanOption == <<"e", "d", "i", "t", "_", "p", "l", "a", "n">>
AcceptedOption == <<"a", "c", "c", "e", "p", "t", "e", "d">>

resume_msgMut(interrupt_feedback, messages) ==
    interrupt_feedback \o <<" ">> \o messages[Len(messages)].content
\* resume_msg = f"[{interrupt_feedback}]", and f" {messages[-1]['content']}"
\* added to it if there are messages
resume_msg(interrupt_feedback, messages) ==
    <<"[">> \o interrupt_feedback \o <<"]">>
        \o (IF messages # <<>> THEN <<" ">> \o messages[Len(messages)].content ELSE <<>>)

\* the resume values a client may send
Feedbacks ==
    { EditPlanTag \o <<" ", "x">>,
      resume_msg(EditPlanOption, RequestMessages),
      AcceptedTag,
      resume_msg(AcceptedOption, RequestMessages),
      <<"b", "a", "n", "a", "n", "a">>,
      <<>> }

\* if feedback and str(feedback).upper().startswith("[EDIT_PLAN]")
IsEditPlan(feedback) == feedback # <<>> /\ StartsWith(Upper(feedback), EditPlanTag)

IsAcceptedMut(feedback) == TRUE
\* elif feedback and str(feedback).upper().startswith("[ACCEPTED]")
IsAccepted(feedback) == feedback # <<>> /\ StartsWith(Upper(feedback), AcceptedTag)

(***************************************************************************)
(* The planning model's response (full_response).  Its text is not         *)
(* modelled; a response is given by what repair_json_output, json.loads    *)
(* and Plan.model_validate make of it:                                     *)
(*   json                whether repair + json.loads succeed               *)
(*   has_enough_context  "true", "false", or "missing" (no such key)       *)
(*   valid               whether Plan.model_validate accepts the object    *)
(*   steps               the agent kind each step needs                    *)
(***************************************************************************)
PlanResponse(hec, valid, steps) ==
    [json |-> TRUE, has_enough_context |-> hec, valid |-> valid,
     steps |-> steps, locale |-> "zh-CN"]

NotJson ==
    [json |-> FALSE, has_enough_context |-> "missing", valid |-> FALSE,
     steps |-> <<>>, locale |-> "zh-CN"]

PlannerResponses ==
    { NotJson,
      PlanResponse("true", TRUE, <<>>),
      PlanResponse("true", FALSE, <<>>),
      PlanResponse("false", TRUE, <<"researcher">>),
      PlanResponse("false", TRUE, <<"researcher", "coder">>),
      PlanResponse("false", FALSE, <<"researcher">>),
      PlanResponse("missing", FALSE, <<"researcher">>) }

\* repair_json_output + json.loads succeed
JsonLoads(response) == response.json

NoPlan == [tag |-> "none"]

RawPlan(response) == [tag |-> "raw", response |-> response]

\* the title and the description the planning model gives to a step
StepTitle == <<"s">>
StepDescription == <<"d", "o">>

ParsedPlanMut(response) == [tag |-> "dict", response |-> response]
\* Plan.model_validate(obj), for an object it accepts
ValidatedPlan(response) ==
    [tag |-> "plan",
     has_enough_context |-> (response.has_enough_context = "true"),
     locale |-> response.locale,
     steps |-> [i \in 1..Len(response.steps) |->
                   [agent |-> response.steps[i], execution_res |-> None,
                    title |-> StepTitle, description |-> StepDescription]]]

ModelValidatesMut(obj) == TRUE
\* Plan.model_validate(obj) accepts obj
ModelValidates(obj) == obj.valid

IsPlan(plan) == plan.tag = "plan"

Steps(plan) == IF IsPlan(plan) THEN plan.steps ELSE <<>>

NoWrites == [i \in 1..2 |-> 0]

(***************************************************************************)
(* The coordinator's decision: the tool calls of the model's response.     *)
(***************************************************************************)
Handoff(loc, topic) ==
    [name |-> "handoff_to_planner", locale |-> loc, research_topic |-> topic]

CoordinatorResponses ==
    { <<>>,
      <<Handoff("zh-CN", <<"t">>)>>,
      <<Handoff("", <<"t">>)>>,
      <<[name |-> "other_tool", locale |-> "zh-CN", research_topic |-> <<"t">>]>> }

RECURSIVE HandoffArgs(_, _)
\* the (locale, research_topic) the loop over tool_calls ends with
HandoffArgs(tool_calls, current) ==
    IF tool_calls = <<>> THEN current
    ELSE LET tool_call == Head(tool_calls)
         IN  IF tool_call.name # "handoff_to_planner"
             THEN HandoffArgs(Tail(tool_calls), current)
             ELSE IF tool_call.locale # "" /\ tool_call.research_topic # <<>>
                  THEN [locale |-> tool_call.locale,
                        research_topic |-> tool_call.research_topic]
                  ELSE HandoffArgs(Tail(tool_calls), current)

(***************************************************************************)
(* Init: the input_ of _astream_workflow_generator, before the first node. *)
(***************************************************************************)
\* MAX_CONTEXT_TOKENS = parse_token_limit(os.getenv("MAX_CONTEXT_TOKENS", "128000"))
DefaultContextTokens == 128000

ExecIdle ==
    /\ exec_pc = "idle"
    /\ current_step = 0
    /\ retry_count = 0
    /\ agent_input = <<>>

WfInit ==
    /\ stage = "coordinator"
    /\ raised = "none"
    /\ suspended = FALSE
    /\ resume_value = None
    /\ state_messages = <<[role |-> "user", content |-> UserQuery]>>
    /\ plan_iterations = 0
    /\ current_plan = NoPlan
    /\ observations = <<>>
    /\ final_report = <<>>
    /\ locale = "en-US"
    /\ research_topic = UserQuery
    /\ background_investigation_results = None
    /\ auto_accepted_plan \in BOOLEAN
    /\ enable_background_investigation \in BOOLEAN
    /\ max_plan_iterations \in 0..MaxPlanLimit
    /\ MAX_CONTEXT_TOKENS = DefaultContextTokens
    /\ ExecIdle
    /\ agent_calls = 0
    /\ exec_failures = <<>>
    /\ exec_outcome = "none"
    /\ res_writes = NoWrites
    /\ exec_calls = 0
    /\ edits = 0
    /\ planner_output = <<>>
    /\ planner_calls = 0

\* what is kept of state["messages"]: all of it, or what
\* _execute_agent_step reads back (state_messages[-5:])
KeptMessages(msgs) == IF record_history THEN msgs ELSE LastN(msgs, 5)

\* what is kept of state["observations"]: all of it, or observations[-3:]
KeptObservations(obs) == IF record_history THEN obs ELSE LastN(obs, 3)

\* a counter of the history of the run, after one more occurrence
Counted(n) == IF record_history THEN n + 1 ELSE n

\* a node ends by raising: the run ends with the exception
Raise(exception) ==
    /\ stage' = "error"
    /\ raised' = exception

Goto(node) ==
    /\ stage' = node
    /\ UNCHANGED raised

(***************************************************************************)
(* coordinator_node.  Its update of resources (configurable.resources, a   *)
(* constant of the run) is not modelled.                                   *)
(***************************************************************************)
coordinator_node(tool_calls) ==
    /\ stage = "coordinator"
    /\ LET args == HandoffArgs(tool_calls,
                               [locale |-> locale, research_topic |-> research_topic])
       IN  /\ locale' = args.locale
           /\ research_topic' = args.research_topic
    /\ IF Len(tool_calls) > 0
       THEN IF enable_background_investigation
            THEN Goto("background_investigator")
            ELSE Goto("planner")
       ELSE Goto("end")
    /\ UNCHANGED <<suspended, resume_value, state_messages, plan_iterations, current_plan, observations,
                   final_report, background_investigation_results, auto_accepted_plan,
                   enable_background_investigation, max_plan_iterations, MAX_CONTEXT_TOKENS, record_history,
                   execvars, histvars, tcvars, streamvars>>

(***************************************************************************)
(* background_investigation_node                                           *)
(***************************************************************************)
SearchResults == <<"s">>

background_investigation_node ==
    /\ stage = "background_investigator"
    /\ background_investigation_results' = SearchResults
    /\ Goto("planner")
    /\ UNCHANGED <<suspended, resume_value, state_messages, plan_iterations, current_plan, observations,
                   final_report, locale, research_topic, auto_accepted_plan,
                   enable_background_investigation, max_plan_iterations, MAX_CONTEXT_TOKENS, record_history,
                   execvars, histvars, tcvars, streamvars>>

(***************************************************************************)
(* planner_node                                                            *)
(***************************************************************************)
ParseFailureGotoMut(iterations) == "reporter"
\* except json.JSONDecodeError: if plan_iterations > 0: goto reporter, else __end__
ParseFailureGoto(iterations) == IF iterations > 0 THEN "reporter" ELSE "end"

LimitReachedMut(iterations, limit) == iterations > limit
\* if plan_iterations >= configurable.max_plan_iterations
LimitReached(iterations, limit) == iterations >= limit

\* the limit is reached: return Command(goto="reporter"), no model call
planner_limit_reached ==
    /\ stage = "planner"
    /\ LimitReached(plan_iterations, max_plan_iterations)
    /\ Goto("reporter")
    /\ UNCHANGED <<suspended, resume_value, statevars, max_plan_iterations, MAX_CONTEXT_TOKENS, record_history, execvars, histvars, tcvars, streamvars>>

planner_node(full_response) ==
    /\ stage = "planner"
    /\ ~LimitReached(plan_iterations, max_plan_iterations)
    /\ IF ~JsonLoads(full_response)
       THEN \* except json.JSONDecodeError
            /\ Goto(ParseFailureGoto(plan_iterations))
            /\ UNCHANGED <<state_messages, current_plan>>
       ELSE IF full_response.has_enough_context = "true"
       THEN IF ModelValidates(full_response)
            THEN /\ state_messages' = KeptMessages(Append(state_messages,
                        [type |-> "ai", name |-> "planner", content |-> full_response]))
                 /\ current_plan' = ValidatedPlan(full_response)
                 /\ Goto("reporter")
            ELSE \* Plan.model_validate raises
                 /\ Raise("ValidationError")
                 /\ UNCHANGED <<state_messages, current_plan>>
       ELSE /\ state_messages' = KeptMessages(Append(state_messages,
                   [type |-> "ai", name |-> "planner", content |-> full_response]))
            /\ current_plan' = RawPlan(full_response)
            /\ Goto("human_feedback")
    /\ res_writes' = NoWrites
    /\ planner_output' = full_response
    /\ planner_calls' = Counted(planner_calls)
    /\ UNCHANGED <<suspended, resume_value, plan_iterations, observations, final_report, locale,
                   research_topic, background_investigation_results, auto_accepted_plan,
                   enable_background_investigation, max_plan_iterations, MAX_CONTEXT_TOKENS, record_history, execvars,
                   agent_calls, exec_failures, exec_outcome, exec_calls, edits, tcvars, streamvars>>


(***************************************************************************)
(* human_feedback_node                                                     *)
(***************************************************************************)
PlanIterationsAfterAcceptMut(n) == n - 1
\* plan_iterations += 1
PlanIterationsAfterAccept(n) == n + 1

\* "if the plan is accepted, run the following node": the code after the
\* interrupt branch
AcceptPlan ==
    IF current_plan.tag # "raw"
    THEN \* repair_json_output of something that is no text
         /\ Raise("TypeError")
         /\ UNCHANGED <<current_plan, plan_iterations, locale>>
    ELSE LET new_plan == current_plan.response
             iterations == PlanIterationsAfterAccept(plan_iterations)
         IN  IF ~JsonLoads(new_plan)
             THEN \* except json.JSONDecodeError, after the increment of the local
                  /\ Goto(ParseFailureGoto(iterations))
                  /\ UNCHANGED <<current_plan, plan_iterations, locale>>
             ELSE IF new_plan.has_enough_context = "missing"
             THEN \* new_plan["has_enough_context"]
                  /\ Raise("KeyError")
                  /\ UNCHANGED <<current_plan, plan_iterations, locale>>
             ELSE IF ~ModelValidates(new_plan)
             THEN \* Plan.model_validate raises
                  /\ Raise("ValidationError")
                  /\ UNCHANGED <<current_plan, plan_iterations, locale>>
             ELSE /\ current_plan' = ValidatedPlan(new_plan)
                  /\ plan_iterations' = iterations
                  /\ locale' = new_plan.locale
                  /\ IF new_plan.has_enough_context = "true"
                     THEN Goto("reporter")
                     ELSE Goto("research_team")

\* feedback = interrupt("Please Review the Plan."), first execution: the run
\* stops here, its state kept by the checkpointer, until it is resumed
human_feedback_interrupt ==
    /\ stage = "human_feedback"
    /\ ~auto_accepted_plan
    /\ ~suspended
    /\ resume_value = None
    /\ suspended' = TRUE
    /\ UNCHANGED <<stage, raised, resume_value, statevars, max_plan_iterations, MAX_CONTEXT_TOKENS, record_history, execvars,
                   histvars, tcvars, streamvars>>

resumeMut(feedback) ==
    /\ suspended
    /\ suspended' = FALSE
    /\ resume_value' = feedback
    /\ current_plan' = NoPlan
    /\ UNCHANGED <<stage, raised, state_messages, plan_iterations, observations,
                   final_report, locale, research_topic,
                   background_investigation_results, auto_accepted_plan,
                   enable_background_investigation, max_plan_iterations, MAX_CONTEXT_TOKENS, record_history, execvars,
                   histvars, tcvars, streamvars>>
\* graph.astream(Command(resume=resume_msg)): the suspended run is resumed; the
\* node is executed again from its start and interrupt() returns the value
resume(feedback) ==
    /\ suspended
    /\ suspended' = FALSE
    /\ resume_value' = feedback
    /\ UNCHANGED <<stage, raised, statevars, max_plan_iterations, MAX_CONTEXT_TOKENS, record_history, execvars, histvars,
                   tcvars, streamvars>>

FeedbackMessageMut(feedback) ==
    [type |-> "human", name |-> "feedback",
     content |-> SubSeq(feedback, Len(EditPlanTag) + 1, Len(feedback))]
\* HumanMessage(content=feedback, name="feedback")
FeedbackMessage(feedback) ==
    [type |-> "human", name |-> "feedback", content |-> feedback]

\* interrupt() returned a decision that starts with [EDIT_PLAN]
human_feedback_edit ==
    /\ stage = "human_feedback"
    /\ resume_value # None
    /\ IsEditPlan(resume_value)
    /\ edits < MaxEdits
    /\ resume_value' = None
    /\ state_messages' = KeptMessages(Append(state_messages, FeedbackMessage(resume_value)))
    /\ Goto("planner")
    /\ edits' = Counted(edits)
    /\ UNCHANGED <<suspended, plan_iterations, current_plan, observations, final_report,
                   locale, research_topic, background_investigation_results,
                   auto_accepted_plan, enable_background_investigation,
                   max_plan_iterations, MAX_CONTEXT_TOKENS, record_history, execvars, agent_calls, exec_failures,
                   exec_outcome, res_writes, exec_calls, planner_output, planner_calls, tcvars, streamvars>>

\* interrupt() returned a decision that starts with [ACCEPTED]
human_feedback_accept ==
    /\ stage = "human_feedback"
    /\ resume_value # None
    /\ ~IsEditPlan(resume_value)
    /\ IsAccepted(resume_value)
    /\ resume_value' = None
    /\ AcceptPlan
    /\ UNCHANGED <<suspended, state_messages, observations, final_report, research_topic,
                   background_investigation_results, auto_accepted_plan,
                   enable_background_investigation, max_plan_iterations, MAX_CONTEXT_TOKENS, record_history, execvars,
                   histvars, tcvars, streamvars>>

\* interrupt() returned any other decision: raise TypeError
human_feedback_unsupported ==
    /\ stage = "human_feedback"
    /\ resume_value # None
    /\ ~IsEditPlan(resume_value)
    /\ ~IsAccepted(resume_value)
    /\ resume_value' = None
    /\ Raise("TypeError")
    /\ UNCHANGED <<suspended, statevars, max_plan_iterations, MAX_CONTEXT_TOKENS, record_history, execvars, histvars, tcvars, streamvars>>

\* auto_accepted_plan: no interrupt
human_feedback_auto ==
    /\ stage = "human_feedback"
    /\ auto_accepted_plan
    /\ AcceptPlan
    /\ UNCHANGED <<suspended, resume_value, state_messages, observations, final_report, research_topic,
                   background_investigation_results, auto_accepted_plan,
                   enable_background_investigation, max_plan_iterations, MAX_CONTEXT_TOKENS, record_history, execvars,
                   histvars, tcvars, streamvars>>

(***************************************************************************)
(* research_team_node and the edge that leaves it.  The node does nothing; *)
(* the edge is built in src/graph/builder.py.                              *)
(***************************************************************************)
UnexecutedMut(step) == step.execution_res = None
\* a step that still needs an agent
Unexecuted(step) == Falsy(step.execution_res)

research_team_node ==
    /\ stage = "research_team"
    /\ LET steps == Steps(current_plan)
           todo == {i \in 1..Len(steps) : Unexecuted(steps[i])}
       IN  IF todo = {}
           THEN Goto("reporter")
           ELSE Goto(steps[CHOOSE i \in todo : \A j \in todo : i <= j].agent)
    /\ UNCHANGED <<suspended, resume_value, statevars, max_plan_iterations, MAX_CONTEXT_TOKENS, record_history, execvars, histvars, tcvars, streamvars>>

(***************************************************************************)
(* reporter_node                                                           *)
(***************************************************************************)
ReportText == <<"r">>

reporter_node ==
    /\ stage = "reporter"
    /\ IF IsPlan(current_plan)
       THEN /\ final_report' = ReportText
            /\ Goto("end")
       ELSE \* current_plan.title of None or of a str
            /\ Raise("AttributeError")
            /\ UNCHANGED final_report
    /\ UNCHANGED <<suspended, resume_value, state_messages, plan_iterations, current_plan, observations,
                   locale, research_topic, background_investigation_results,
                   auto_accepted_plan, enable_background_investigation,
                   max_plan_iterations, MAX_CONTEXT_TOKENS, record_history, execvars, histvars, tcvars, streamvars>>

(***************************************************************************)
(* _execute_agent_step (researcher_node and coder_node delegate to it).    *)
(* One action per stretch of code between two awaits of agent.ainvoke.     *)
(***************************************************************************)
max_retries == 3

\* what the agent returns as result["messages"][-1].content
AgentResponses == {<<>>, <<"o", "k">>}

\* str(e).lower() of what the agent raises
AgentErrors == {"context_length_exceeded", "maximum context length", "connection reset"}

\* "context_length_exceeded" in error_msg or "maximum context length" in error_msg
IsContextLengthError(error_msg) ==
    error_msg \in {"context_length_exceeded", "maximum context length"}

\* the class exec_failures records an exception by
ErrorClass(error_msg) == IF IsContextLengthError(error_msg) THEN "context" ELSE "other"

FinalAttemptCatchesMut(error_msg) == IsContextLengthError(error_msg)
\* except Exception as final_e
FinalAttemptCatches(error_msg) == TRUE

\* the content of the MockMessage
PlaceholderText == <<"s", "o", "r", "r", "y">>

FirstUnexecutedStepMut(steps) ==
    IF \E i \in 1..Len(steps) : Falsy(steps[i].execution_res)
    THEN CHOOSE i \in 1..Len(steps) :
             /\ Falsy(steps[i].execution_res)
             /\ \A j \in (i + 1)..Len(steps) : ~Falsy(steps[j].execution_res)
    ELSE 0
\* for step in current_plan.steps: if not step.execution_res: current_step = step; break
FirstUnexecutedStep(steps) ==
    IF \E i \in 1..Len(steps) : Falsy(steps[i].execution_res)
    THEN CHOOSE i \in 1..Len(steps) :
             /\ Falsy(steps[i].execution_res)
             /\ \A j \in 1..(i - 1) : ~Falsy(steps[j].execution_res)
    ELSE 0

(***************************************************************************)
(* The payload of the agent (agent_input), built by _execute_agent_step    *)
(* from the claimed step, the completed steps, the last state messages and *)
(* the last observations, and cut down on a context-length failure.        *)
(* state["resources"] is taken to be empty.                                *)
(***************************************************************************)
\* str(n) for a natural number n
Digit(d) == <<"0", "1", "2", "3", "4", "5", "6", "7", "8", "9">>[d + 1]

RECURSIVE Str(_)
Str(n) == IF n < 10 THEN <<Digit(n)>> ELSE Append(Str(n \div 10), Digit(n % 10))

\* "# Existing Research Findings\n\n"
FindingsHeader ==
    <<"#", " ", "E", "x", "i", "s", "t", "i", "n", "g", " ", "R", "e", "s",
      "e", "a", "r", "c", "h", " ", "F", "i", "n", "d", "i", "n", "g", "s",
      "\n", "\n">>
\* "## Existing Finding "
FindingPrefix ==
    <<"#", "#", " ", "E", "x", "i", "s", "t", "i", "n", "g", " ", "F", "i",
      "n", "d", "i", "n", "g", " ">>
\* "<finding>\n"
FindingOpen ==
    <<"<", "f", "i", "n", "d", "i", "n", "g", ">", "\n">>
\* "\n</finding>\n\n"
FindingClose ==
    <<"\n", "<", "/", "f", "i", "n", "d", "i", "n", "g", ">", "\n", "\n">>
\* "# Current Task\n\n## Title\n\n"
TaskHeader ==
    <<"#", " ", "C", "u", "r", "r", "e", "n", "t", " ", "T", "a", "s", "k",
      "\n", "\n", "#", "#", " ", "T", "i", "t", "l", "e", "\n", "\n">>
\* "\n\n## Description\n\n"
DescriptionHeader ==
    <<"\n", "\n", "#", "#", " ", "D", "e", "s", "c", "r", "i", "p", "t",
      "i", "o", "n", "\n", "\n">>
\* "\n\n## Locale\n\n"
LocaleHeader ==
    <<"\n", "\n", "#", "#", " ", "L", "o", "c", "a", "l", "e", "\n", "\n">>
\* U+89C0 U+5BDF and a space
ObservationWord ==
    <<"U89C0", "U5BDF", " ">>
ColonSpace == <<":", " ">>
\* "\n\n"
Separator == <<"\n", "\n">>
\* U+4EFB U+52D9 ": "
MinimalTaskWord ==
    <<"U4EFB", "U52D9", ":", " ">>
\* "\n" U+63CF U+8FF0 ": "
MinimalDescriptionWord ==
    <<"\n", "U63CF", "U8FF0", ":", " ">>
\* "\n" U+7C21 U+8981 U+63CF U+8FF0 ": "
FinalDescriptionWord ==
    <<"\n", "U7C21", "U8981", "U63CF", "U8FF0", ":", " ">>
Ellipsis == <<".", ".", ".">>
\* "\n\n[" U+5167 U+5BB9 U+5DF2 U+622A U+65B7 U+FF0C U+539F U+9577 U+5EA6 ": "
RetryMarkerOpen ==
    <<"\n", "\n", "[", "U5167", "U5BB9", "U5DF2", "U622A", "U65B7", "UFF0C",
      "U539F", "U9577", "U5EA6", ":", " ">>
\* " " U+5B57 U+7B26 "]"
RetryMarkerClose ==
    <<" ", "U5B57", "U7B26", "]">>

\* the citation reminder appended for the researcher ("IMPORTANT: DO NOT
\* include inline citations in the text. ..."), 310 characters
CitationReminder ==
    <<"I", "M", "P", "O", "R", "T", "A", "N", "T", ":", " ", "D", "O", " ",
      "N", "O", "T", " ", "i", "n", "c", "l", "u", "d", "e", " ", "i", "n",
      "l", "i", "n", "e", " ", "c", "i", "t", "a", "t", "i", "o", "n", "s",
      " ", "i", "n", " ", "t", "h", "e", " ", "t", "e", "x", "t", ".", " ",
      "I", "n", "s", "t", "e", "a", "d", ",", " ", "t", "r", "a", "c", "k",
      " ", "a", "l", "l", " ", "s", "o", "u", "r", "c", "e", "s", " ", "a",
      "n", "d", " ", "i", "n", "c", "l", "u", "d", "e", " ", "a", " ", "R",
      "e", "f", "e", "r", "e", "n", "c", "e", "s", " ", "s", "e", "c", "t",
      "i", "o", "n", " ", "a", "t", " ", "t", "h", "e", " ", "e", "n", "d",
      " ", "u", "s", "i", "n", "g", " ", "n", "u", "m", "b", "e", "r", "e",
      "d", " ", "f", "o", "r", "m", "a", "t", ".", " ", "I", "n", "c", "l",
      "u", "d", "e", " ", "a", "n", " ", "e", "m", "p", "t", "y", " ", "l",
      "i", "n", "e", " ", "b", "e", "t", "w", "e", "e", "n", " ", "e", "a",
      "c", "h", " ", "c", "i", "t", "a", "t", "i", "o", "n", " ", "f", "o",
      "r", " ", "b", "e", "t", "t", "e", "r", " ", "r", "e", "a", "d", "a",
      "b", "i", "l", "i", "t", "y", ".", " ", "U", "s", "e", " ", "t", "h",
      "i", "s", " ", "f", "o", "r", "m", "a", "t", " ", "f", "o", "r", " ",
      "e", "a", "c", "h", " ", "r", "e", "f", "e", "r", "e", "n", "c", "e",
      ":", "\n", "[", "1", "]", "(", "U", "R", "L", ")", " ", "-", " ", "S",
      "o", "u", "r", "c", "e", " ", "T", "i", "t", "l", "e", "\n", "\n",
      "[", "2", "]", "(", "U", "R", "L", ")", " ", "-", " ", "A", "n", "o",
      "t", "h", "e", "r", " ", "S", "o", "u", "r", "c", "e", " ", "T", "i",
      "t", "l", "e">>

\* state.get('locale', 'en-US') as text
LocaleText(loc) ==
    CASE loc = "en-US" -> <<"e", "n", "-", "U", "S">>
      [] loc = "zh-CN" -> <<"z", "h", "-", "C", "N">>
      [] loc = "fr-FR" -> <<"f", "r", "-", "F", "R">>

\* msg.content of a message of the state; the content of the planner's
\* message is the text of its response, of which the model keeps the size
\* of an empty object and, for a plan that validates, the key "title"
MessageText(msg) ==
    IF "name" \in DOMAIN msg /\ msg.name = "planner"
    THEN IF msg.content.valid
         THEN <<"{", "t", "i", "t", "l", "e", "}">>
         ELSE <<"{", "}">>
    ELSE msg.content

RECURSIVE Findings(_, _, _)
\* the findings of steps[i..n], as completed_steps_info lists them
Findings(steps, i, n) ==
    IF i > n THEN <<>>
    ELSE FindingPrefix \o Str(i) \o ColonSpace \o steps[i].title \o Separator
         \o FindingOpen \o steps[i].execution_res \o FindingClose
         \o Findings(steps, i + 1, n)

\* completed_steps_info, n being the number of completed steps
completed_steps_info(steps, n) ==
    IF n = 0 THEN <<>> ELSE FindingsHeader \o Findings(steps, 1, n)

current_task_content(step, loc) ==
    TaskHeader \o step.title \o DescriptionHeader \o step.description
    \o LocaleHeader \o LocaleText(loc)

RECURSIVE obs_content(_, _)
\* "\n\n".join(the observations, numbered from i)
obs_content(recent_observations, i) ==
    IF i > Len(recent_observations) THEN <<>>
    ELSE (IF i > 1 THEN Separator ELSE <<>>)
         \o ObservationWord \o Str(i) \o ColonSpace \o recent_observations[i]
         \o obs_content(recent_observations, i + 1)

ContextPart(content, role, type) ==
    [content |-> content, role |-> role, name |-> <<>>, type |-> type]

\* context_parts: completed steps, current task, the last 5 messages of the
\* state, the last 3 observations
context_parts(steps, i, loc, msgs, obs) ==
    LET info == completed_steps_info(steps, i - 1)
        recent == LastN(msgs, 5)
        text == obs_content(LastN(obs, 3), 1)
    IN  (IF info # <<>>
         THEN <<ContextPart(info, "system", "completed_steps")>> ELSE <<>>)
        \o <<ContextPart(current_task_content(steps[i], loc), "user", "current_task")>>
        \o [k \in 1..Len(recent) |->
               ContextPart(MessageText(recent[k]), "user", "state_message")]
        \o (IF text # <<>>
            THEN <<ContextPart(text, "system", "observations")>> ELSE <<>>)

\* the fallback for a task message that truncation dropped
minimal_task(step) ==
    MinimalTaskWord \o step.title \o MinimalDescriptionWord \o step.description

RECURSIVE JoinContents(_)
\* "\n\n".join(additional_context)
JoinContents(parts) ==
    IF parts = <<>> THEN <<>>
    ELSE IF Len(parts) = 1 THEN parts[1].content
    ELSE parts[1].content \o Separator \o JoinContents(Tail(parts))

IsTaskPart(part) == part.type = "current_task"

IsAdditional(part) ==
    part.type \in {"completed_steps", "observations"} /\ part.content # <<>>

RebuiltPrimaryMut(original, task, truncated_context) ==
    IF \E k \in 1..Len(truncated_context) : IsTaskPart(truncated_context[k])
    THEN SelectSeq(truncated_context, IsTaskPart)[1].content
    ELSE task
\* the content of agent_input["messages"][0] before the additional context
\* is put in front of it: original is the content built first, task the
\* fallback
RebuiltPrimary(original, task, truncated_context) ==
    IF truncated_context = <<>> THEN original
    ELSE IF \E k \in 1..Len(truncated_context) : IsTaskPart(truncated_context[k])
    THEN SelectSeq(truncated_context, IsTaskPart)[1].content
    ELSE task

\* what truncate_context makes of the context parts
truncated_parts(steps, i, loc, msgs, obs, max_tokens) ==
    Messages(truncate_context(context_parts(steps, i, loc, msgs, obs), max_tokens))

\* agent_input["messages"] at the first agent.ainvoke
build_agent_input(steps, i, loc, msgs, obs, agent_name, max_tokens) ==
    LET original == completed_steps_info(steps, i - 1)
                        \o current_task_content(steps[i], loc)
        truncated_context == truncated_parts(steps, i, loc, msgs, obs, max_tokens)
        primary == RebuiltPrimary(original, minimal_task(steps[i]), truncated_context)
        additional_context == SelectSeq(truncated_context, IsAdditional)
        content == IF additional_context # <<>>
                   THEN JoinContents(additional_context) \o Separator \o primary
                   ELSE primary
    IN  <<content>> \o (IF agent_name = "researcher" THEN <<CitationReminder>> ELSE <<>>)

\* if max_length < 1000: max_length = 1000
MinRetained == 1000

FurtherTruncatedMut(current_content, retries) == current_content
\* the content of the primary message for the next attempt;
\* int(len * 0.8 ** retry_count) is (4^r * len) div 5^r for the lengths used
FurtherTruncated(current_content, retries) ==
    LET scaled == ((4 ^ retries) * Len(current_content)) \div (5 ^ retries)
        max_length == IF scaled < MinRetained THEN MinRetained ELSE scaled
    IN  Prefix(current_content, max_length)
        \o (IF max_length < Len(current_content)
            THEN RetryMarkerOpen \o Str(Len(current_content)) \o RetryMarkerClose
            ELSE <<>>)

\* minimal_content of the final attempt: the title and description[:200]
minimal_content(step) ==
    MinimalTaskWord \o step.title \o FinalDescriptionWord
    \o Prefix(step.description, 200) \o Ellipsis

\* from the entry of the function to the first agent.ainvoke
execute_agent_step_begin ==
    /\ stage \in {"researcher", "coder"}
    /\ exec_pc = "idle"
    /\ exec_calls < MaxExecCalls
    /\ exec_calls' = Counted(exec_calls)
    /\ agent_calls' = 0
    /\ exec_failures' = <<>>
    /\ IF ~IsPlan(current_plan)
       THEN \* current_plan.steps of None or of a str
            /\ Raise("AttributeError")
            /\ exec_outcome' = "raised"
            /\ UNCHANGED execvars
       ELSE LET i == FirstUnexecutedStep(current_plan.steps)
            IN  IF i = 0
                THEN \* "No unexecuted step found"
                     /\ Goto("research_team")
                     /\ exec_outcome' = "no_work"
                     /\ UNCHANGED execvars
                ELSE /\ current_step' = i
                     /\ exec_pc' = "invoke"
                     /\ retry_count' = 0
                     /\ agent_input' = build_agent_input(
                            current_plan.steps, i, locale, state_messages,
                            observations, stage, MAX_CONTEXT_TOKENS)
                     /\ exec_outcome' = "running"
                     /\ UNCHANGED <<stage, raised>>
    /\ UNCHANGED <<suspended, resume_value, statevars, max_plan_iterations, MAX_CONTEXT_TOKENS, record_history, res_writes, edits, planner_output, planner_calls,
                   tcvars, streamvars>>

\* "Process the result": the code after the retry loop
ProcessResult(response_content, outcome) ==
    /\ current_plan' =
           [current_plan EXCEPT !.steps[current_step].execution_res = response_content]
    /\ state_messages' = KeptMessages(Append(state_messages,
           [type |-> "human", name |-> stage, content |-> response_content]))
    /\ observations' = KeptObservations(Append(observations, response_content))
    /\ Goto("research_team")
    /\ exec_pc' = "idle"
    /\ current_step' = 0
    /\ retry_count' = 0
    /\ agent_input' = <<>>
    /\ exec_outcome' = outcome
    /\ res_writes' = [res_writes EXCEPT ![current_step] = Counted(@)]

\* agent.ainvoke returns, in the retry loop or in the final attempt
agent_returns(response_content) ==
    /\ exec_pc \in {"invoke", "final"}
    /\ agent_calls' = agent_calls + 1
    /\ ProcessResult(response_content, "result")
    /\ UNCHANGED <<suspended, resume_value, plan_iterations, final_report, locale, research_topic,
                   background_investigation_results, auto_accepted_plan,
                   enable_background_investigation, max_plan_iterations, MAX_CONTEXT_TOKENS, record_history,
                   exec_failures, exec_calls, edits, planner_output, planner_calls,
                   tcvars, streamvars>>

RetriesLeftMut(count) == count <= max_retries
\* if retry_count < max_retries: shrink and loop; else: the final attempt
RetriesLeft(count) == count < max_retries

\* agent.ainvoke raises a context-length error in the retry loop
agent_raises_context_length(error_msg) ==
    /\ exec_pc = "invoke"
    /\ IsContextLengthError(error_msg)
    /\ agent_calls' = agent_calls + 1
    /\ exec_failures' = Append(exec_failures, ErrorClass(error_msg))
    /\ retry_count' = retry_count + 1
    /\ exec_pc' = IF RetriesLeft(retry_count + 1)
                  THEN "invoke"     \* shortened content, next iteration
                  ELSE "final"      \* minimal content, the try inside the handler
    /\ agent_input' =
           IF RetriesLeft(retry_count + 1)
           THEN [agent_input EXCEPT ![1] = FurtherTruncated(@, retry_count + 1)]
           ELSE <<minimal_content(current_plan.steps[current_step])>>
    /\ UNCHANGED <<stage, raised, suspended, resume_value, statevars, max_plan_iterations, MAX_CONTEXT_TOKENS, record_history, current_step,
                   exec_outcome, res_writes, exec_calls, edits, planner_output, planner_calls,
                   tcvars, streamvars>>

PropagateExceptionMut(exception) ==
    /\ Raise(exception)
    /\ exec_pc' = "idle"
    /\ current_step' = 0
    /\ retry_count' = 0
    /\ agent_input' = <<>>
    /\ exec_outcome' = "raised"
    /\ observations' = Append(observations, <<>>)
    /\ UNCHANGED <<suspended, resume_value, state_messages, plan_iterations, current_plan,
                   final_report, locale, research_topic, background_investigation_results,
                   auto_accepted_plan, enable_background_investigation,
                   max_plan_iterations, MAX_CONTEXT_TOKENS, record_history, res_writes,
                   exec_calls, edits, planner_output, planner_calls, tcvars, streamvars>>
\* the exception of agent.ainvoke leaves _execute_agent_step: the code after
\* the retry loop is not run and no Command is returned
PropagateException(exception) ==
    /\ Raise(exception)
    /\ exec_pc' = "idle"
    /\ current_step' = 0
    /\ retry_count' = 0
    /\ agent_input' = <<>>
    /\ exec_outcome' = "raised"
    /\ UNCHANGED <<suspended, resume_value, statevars, max_plan_iterations, MAX_CONTEXT_TOKENS,
                   record_history, res_writes, exec_calls, edits, planner_output,
                   planner_calls, tcvars, streamvars>>

\* agent.ainvoke raises anything else in the retry loop: raise e
agent_raises_other(error_msg) ==
    /\ exec_pc = "invoke"
    /\ ~IsContextLengthError(error_msg)
    /\ agent_calls' = agent_calls + 1
    /\ exec_failures' = Append(exec_failures, ErrorClass(error_msg))
    /\ PropagateException("AgentError")

\* agent.ainvoke raises in the final attempt
final_attempt_raises(error_msg) ==
    /\ exec_pc = "final"
    /\ agent_calls' = agent_calls + 1
    /\ exec_failures' = Append(exec_failures, ErrorClass(error_msg))
    /\ IF FinalAttemptCatches(error_msg)
       THEN /\ ProcessResult(PlaceholderText, "placeholder")
            /\ UNCHANGED <<suspended, resume_value, plan_iterations, final_report, locale,
                           research_topic, background_investigation_results,
                           auto_accepted_plan, enable_background_investigation,
                           max_plan_iterations, MAX_CONTEXT_TOKENS, record_history, exec_calls, edits, planner_output, planner_calls,
                   tcvars, streamvars>>
       ELSE PropagateException("AgentError")

(***************************************************************************)
(* _astream_workflow_generator (server/app.py): the thread context of the  *)
(* call and the translation of the items of graph.astream into events.     *)
(*                                                                         *)
(* An item is what graph.astream delivers as event_data: a dict of the     *)
(* "updates" mode, with or without the key __interrupt__, or the message   *)
(* of a (message, metadata) pair of the "messages" mode.  seq is the       *)
(* position of the item in the stream; it is kept in the event it gives,   *)
(* for the properties.                                                     *)
(***************************************************************************)
\* the thread_id of the call
ThreadId == "t1"

\* no thread context is set
NoContext == "<none>"

\* the thread ids of the other runs of the process
OtherThreads == {"t2"}

InterruptValue == <<"P", "l", "e", "a", "s", "e">>

\* a key the data of an event does not have
Absent == "<absent>"

\* agent is agent[0].split(":")[0] of the delivered triple
UpdateItem(interrupt) ==
    [type |-> "dict", interrupt |-> interrupt, id |-> "ns", agent |-> "human_feedback",
     content |-> InterruptValue, tool_call_id |-> Absent,
     tool_calls |-> FALSE, tool_call_chunks |-> FALSE]

\* tool_calls, tool_call_chunks: the message has a non-empty list of them
MessageItem(type, content, tool_calls, tool_call_chunks) ==
    [type |-> type, interrupt |-> FALSE, id |-> "run-1",
     agent |-> IF type = "ToolMessage" THEN "researcher" ELSE "planner",
     content |-> content,
     tool_call_id |-> IF type = "ToolMessage" THEN "call-1" ELSE Absent,
     tool_calls |-> tool_calls, tool_call_chunks |-> tool_call_chunks]

StreamItems ==
    { UpdateItem(TRUE),
      UpdateItem(FALSE),
      MessageItem("ToolMessage", <<"r">>, FALSE, FALSE),
      MessageItem("AIMessageChunk", <<>>, TRUE, TRUE),
      MessageItem("AIMessageChunk", <<>>, FALSE, TRUE),
      MessageItem("AIMessageChunk", <<"x">>, FALSE, FALSE),
      MessageItem("AIMessageChunk", <<>>, FALSE, FALSE),
      MessageItem("HumanMessage", <<"q">>, FALSE, FALSE) }

\* the data of the interrupt event (role, finish_reason and options, which are
\* constants, are left out); tool_calls and tool_call_chunks of the data of
\* an event: the data has that key
interrupt_data(item) ==
    [thread_id |-> ThreadId, agent |-> Absent, id |-> item.id, content |-> item.content,
     tool_call_id |-> Absent, tool_calls |-> FALSE, tool_call_chunks |-> FALSE]

\* event_stream_message as it is first built, for a message
event_stream_message(item) ==
    [thread_id |-> ThreadId, agent |-> item.agent, id |-> item.id, content |-> item.content,
     tool_call_id |-> Absent, tool_calls |-> FALSE, tool_call_chunks |-> FALSE]

\* no event is made of the message
NoEvent == "<no event>"

EventKindMut(item) ==
    IF item.type = "ToolMessage" THEN "tool_call_result"
    ELSE IF item.type = "AIMessageChunk"
    THEN IF item.tool_call_chunks THEN "tool_call_chunks"
         ELSE IF item.tool_calls THEN "tool_calls"
         ELSE "message_chunk"
    ELSE NoEvent
\* the isinstance tests at the end of the loop body: the kind of the event
EventKind(item) ==
    IF item.type = "ToolMessage" THEN "tool_call_result"
    ELSE IF item.type = "AIMessageChunk"
    THEN IF item.tool_calls THEN "tool_calls"
         ELSE IF item.tool_call_chunks THEN "tool_call_chunks"
         ELSE "message_chunk"
    ELSE NoEvent

\* event_stream_message as it is handed to _make_event, for an event of this kind
MessageData(item, kind) ==
    CASE kind = "tool_call_result" ->
             [event_stream_message(item) EXCEPT !.tool_call_id = item.tool_call_id]
      [] kind = "tool_calls" ->
             [event_stream_message(item) EXCEPT !.tool_calls = TRUE,
                                                !.tool_call_chunks = TRUE]
      [] kind = "tool_call_chunks" ->
             [event_stream_message(item) EXCEPT !.tool_call_chunks = TRUE]
      [] OTHER -> event_stream_message(item)

make_eventMut(event_type, data, seq) ==
    [event |-> event_type, thread_id |-> data.thread_id, agent |-> data.agent,
     id |-> data.id, content |-> data.content,
     tool_call_id |-> data.tool_call_id, tool_calls |-> data.tool_calls,
     tool_call_chunks |-> data.tool_call_chunks, src |-> seq]
\* _make_event: an empty content is removed from the data (None: no such key)
make_event(event_type, data, seq) ==
    [event |-> event_type, thread_id |-> data.thread_id, agent |-> data.agent,
     id |-> data.id, content |-> IF data.content = <<>> THEN None ELSE data.content,
     tool_call_id |-> data.tool_call_id, tool_calls |-> data.tool_calls,
     tool_call_chunks |-> data.tool_call_chunks, src |-> seq]

TranslateMut(item, seq) ==
    IF item.type = "dict"
    THEN IF item.interrupt
         THEN <<make_event("interrupt", interrupt_data(item), seq)>> ELSE <<>>
    ELSE IF EventKind(item) = NoEvent
    THEN <<make_event("message_chunk", MessageData(item, "message_chunk"), seq)>>
    ELSE <<make_event(EventKind(item), MessageData(item, EventKind(item)), seq)>>
\* the body of the async for: the events one item makes the generator yield
Translate(item, seq) ==
    IF item.type = "dict"
    THEN \* if "__interrupt__" in event_data: yield ...; continue
         IF item.interrupt
         THEN <<make_event("interrupt", interrupt_data(item), seq)>> ELSE <<>>
    ELSE IF EventKind(item) = NoEvent
    THEN <<>>
    ELSE <<make_event(EventKind(item), MessageData(item, EventKind(item)), seq)>>

\* src/utils/logging_config.py: the thread gets its logger, kept by thread id
setup_thread_logging(registry, thread_id) == registry \cup {thread_id}

\* src/utils/logging_config.py: the logger of the thread is closed and removed
cleanup_thread_logging(registry, thread_id) == registry \ {thread_id}

StreamIdle ==
    /\ gen_pc = "idle"
    /\ consumed = <<>>
    /\ events = <<>>
    /\ thread_registry = {}
    /\ current_context = NoContext
    /\ found_context = NoContext

\* setup_thread_logging(thread_id, ...); set_current_thread_context(thread_id, ...)
generator_start ==
    /\ gen_pc = "start"
    /\ thread_registry' = setup_thread_logging(thread_registry, ThreadId)
    /\ current_context' = ThreadId
    /\ gen_pc' = "pull"
    /\ UNCHANGED <<consumed, events, found_context, tcvars, wfvars>>

astream_itemMut(item) ==
    /\ gen_pc = "pull"
    /\ Len(consumed) < MaxStream
    /\ LET seq == Len(consumed) + 1
           out == Translate(item, seq)
       IN  /\ consumed' = Append(consumed, [item |-> item, seq |-> seq])
           /\ events' = events \o out
           /\ gen_pc' = IF out = <<>> THEN "pull" ELSE "yield"
    /\ found_context' = current_context
    /\ UNCHANGED <<current_context, thread_registry, tcvars, wfvars>>
\* graph.astream delivers an item: one iteration of the async for, up to its
\* yield if it has one. The iteration sets the context of its run first and
\* has no await before its yield.
astream_item(item) ==
    /\ gen_pc = "pull"
    /\ Len(consumed) < MaxStream
    /\ LET seq == Len(consumed) + 1
           out == Translate(item, seq)
       IN  /\ consumed' = Append(consumed, [item |-> item, seq |-> seq])
           /\ events' = events \o out
           /\ gen_pc' = IF out = <<>> THEN "pull" ELSE "yield"
    /\ found_context' = current_context
    /\ current_context' = ThreadId
    /\ UNCHANGED <<thread_registry, tcvars, wfvars>>

\* the generator of another run, which runs while this one is suspended (at
\* the await of its next item or at a yield), starts or begins an iteration:
\* its logger is registered and the context becomes its own
other_run_sets(thread) ==
    /\ gen_pc \in {"start", "pull", "yield"}
    /\ current_context # thread
    /\ thread_registry' = setup_thread_logging(thread_registry, thread)
    /\ current_context' = thread
    /\ UNCHANGED <<gen_pc, consumed, events, found_context, tcvars, wfvars>>

\* the generator of another run reaches the statements after its loop
other_run_ends(thread) ==
    /\ gen_pc \in {"start", "pull", "yield"}
    /\ thread \in thread_registry
    /\ current_context' = NoContext
    /\ thread_registry' = cleanup_thread_logging(thread_registry, thread)
    /\ UNCHANGED <<gen_pc, consumed, events, found_context, tcvars, wfvars>>

\* the client takes the next event: the generator continues after its yield
client_next ==
    /\ gen_pc = "yield"
    /\ gen_pc' = "pull"
    /\ UNCHANGED <<consumed, events, thread_registry, current_context, found_context,
                   tcvars, wfvars>>

\* graph.astream is exhausted (the run reached its end or an interrupt): the
\* code after the loop runs, clear_current_thread_context() and
\* cleanup_thread_logging(thread_id)
astream_ends ==
    /\ gen_pc = "pull"
    /\ current_context' = NoContext
    /\ thread_registry' = cleanup_thread_logging(thread_registry, ThreadId)
    /\ gen_pc' = "done"
    /\ UNCHANGED <<consumed, events, found_context, tcvars, wfvars>>

\* graph.astream raises (a node of the run raised): the exception leaves the
\* generator, which has no try
astream_raises ==
    /\ gen_pc = "pull"
    /\ gen_pc' = "raised"
    /\ UNCHANGED <<consumed, events, thread_registry, current_context, found_context,
                   tcvars, wfvars>>

\* the client goes away: the generator is closed where it is suspended, at
\* a yield or at the await of the next item
client_abandons ==
    /\ gen_pc \in {"pull", "yield"}
    /\ gen_pc' = "closed"
    /\ UNCHANGED <<consumed, events, thread_registry, current_context, found_context,
                   tcvars, wfvars>>

(***************************************************************************)
(* The specifications.                                                     *)
(***************************************************************************)
Init ==
    /\ WfInit
    /\ record_history = TRUE
    /\ tc_messages = <<>>
    /\ tc_max_tokens = 0
    /\ tc_result = <<>>
    /\ tc_pc = "idle"
    /\ StreamIdle

Next ==
    \/ \E tool_calls \in CoordinatorResponses : coordinator_node(tool_calls)
    \/ background_investigation_node
    \/ planner_limit_reached
    \/ \E full_response \in PlannerResponses : planner_node(full_response)
    \/ human_feedback_interrupt
    \/ \E feedback \in Feedbacks : resume(feedback)
    \/ human_feedback_edit
    \/ human_feedback_accept
    \/ human_feedback_unsupported
    \/ human_feedback_auto
    \/ research_team_node
    \/ reporter_node
    \/ execute_agent_step_begin
    \/ \E response_content \in AgentResponses : agent_returns(response_content)
    \/ \E error_msg \in AgentErrors : agent_raises_context_length(error_msg)
    \/ \E error_msg \in AgentErrors : agent_raises_other(error_msg)
    \/ \E error_msg \in AgentErrors : final_attempt_raises(error_msg)

TcInit ==
    /\ tc_messages \in InputLists
    /\ tc_max_tokens \in 0..MaxBudget
    /\ tc_result = <<>>
    /\ tc_pc = "call"
    /\ WfInit
    /\ record_history = TRUE
    /\ auto_accepted_plan
    /\ enable_background_investigation
    /\ max_plan_iterations = 1
    /\ StreamIdle

TruncateCall ==
    /\ tc_pc = "call"
    /\ tc_result' = truncate_context(tc_messages, tc_max_tokens)
    /\ tc_pc' = "done"
    /\ UNCHANGED <<tc_messages, tc_max_tokens, wfvars, streamvars>>

vars == <<tcvars, wfvars, streamvars>>

Spec == Init /\ [][Next]_vars

\* the runs of the workflow graph, endless ones included: every node that
\* can run does run, every invocation of a model or an agent returns or
\* raises, every suspended run is resumed
LiveInit ==
    /\ WfInit
    /\ record_history = FALSE
    /\ tc_messages = <<>>
    /\ tc_max_tokens = 0
    /\ tc_result = <<>>
    /\ tc_pc = "idle"
    /\ StreamIdle

\* the nodes of the graph
Nodes ==
    {"coordinator", "background_investigator", "planner", "human_feedback",
     "research_team", "researcher", "coder", "reporter"}

\* a run suspended in human_feedback is resumed with some feedback
SuspensionResumed == \E feedback \in Feedbacks : resume(feedback)

\* Fairness: every suspension is resumed, and no node runs for ever: the
\* model or the agent it invokes returns or raises, and the node that
\* follows is entered.  (A node takes finitely many steps, so that this is
\* WF_vars(Next).)
SpecLive ==
    /\ LiveInit
    /\ [][Next]_vars
    /\ WF_vars(SuspensionResumed)
    /\ \A node \in Nodes : []<>(stage # node)

\* truncate_context alone, on every input of InputLists and every budget
SpecTruncate == TcInit /\ [][TruncateCall]_vars

\* estimate_tokens on the texts made of up to three of these pieces, each the
\* content of the one message handed to truncate_context (which estimates it)
EstimatePieces ==
    { <<>>, <<"a">>, Rep("a", 3), <<"U4E2D">>, Rep("U4E2D", 2),
      CodeFence, KwDef, KwClass, <<"d", "e", "f">>, <<"U0060", "U0060">> }

EstimateTexts == {p \o q \o r : p \in EstimatePieces, q \in EstimatePieces, r \in EstimatePieces}

EstimateInit ==
    /\ tc_messages \in {<<Msg(text, "user", <<>>)>> : text \in EstimateTexts}
    /\ tc_max_tokens \in {0, MaxBudget}
    /\ tc_result = <<>>
    /\ tc_pc = "call"
    /\ WfInit
    /\ record_history = TRUE
    /\ auto_accepted_plan
    /\ enable_background_investigation
    /\ max_plan_iterations = 1
    /\ StreamIdle

SpecEstimate == EstimateInit /\ [][TruncateCall]_vars

\* human_feedback_node as a function of the state it is given: any stored plan
\* text and any iteration count, the run being at human_feedback
FeedbackInit ==
    /\ stage = "human_feedback"
    /\ raised = "none"
    /\ suspended = FALSE
    /\ resume_value = None
    /\ state_messages = <<[role |-> "user", content |-> UserQuery]>>
    /\ plan_iterations \in 0..MaxPlanLimit
    /\ current_plan \in {RawPlan(response) : response \in PlannerResponses}
    /\ observations = <<>>
    /\ final_report = <<>>
    /\ locale = "en-US"
    /\ research_topic = UserQuery
    /\ background_investigation_results = None
    /\ auto_accepted_plan \in BOOLEAN
    /\ enable_background_investigation = FALSE
    /\ max_plan_iterations = MaxPlanLimit
    /\ MAX_CONTEXT_TOKENS = DefaultContextTokens
    /\ record_history = TRUE
    /\ ExecIdle
    /\ agent_calls = 0
    /\ exec_failures = <<>>
    /\ exec_outcome = "none"
    /\ res_writes = NoWrites
    /\ exec_calls = 0
    /\ edits = 0
    /\ planner_output = <<>>
    /\ planner_calls = 0
    /\ tc_messages = <<>>
    /\ tc_max_tokens = 0
    /\ tc_result = <<>>
    /\ tc_pc = "idle"
    /\ StreamIdle

FeedbackNext ==
    \/ human_feedback_interrupt
    \/ \E feedback \in Feedbacks : resume(feedback)
    \/ human_feedback_edit
    \/ human_feedback_accept
    \/ human_feedback_unsupported
    \/ human_feedback_auto

SpecFeedback == FeedbackInit /\ [][FeedbackNext]_vars

\* one invocation of _execute_agent_step as a function of the state it is
\* given and of the configured context budget: a plan with or without a
\* completed step, its result being the observation and the last message
PayloadDescriptions == {<<"d", "o">>, Rep("a", 60), Rep("a", 950), Rep("a", 1240)}

PayloadResults == {<<"o", "k">>, Rep("b", 60)}

PayloadQueries == {UserQuery, Rep("q", 60)}

PayloadBudgets == {10 * k : k \in 0..MaxPayloadBudget} \cup {DefaultContextTokens}

PayloadStep(agent, res, description) ==
    [agent |-> agent, execution_res |-> res, title |-> StepTitle,
     description |-> description]

PayloadPlan(steps) ==
    [tag |-> "plan", has_enough_context |-> FALSE, locale |-> "en-US", steps |-> steps]

PayloadInit ==
    /\ stage \in {"researcher", "coder"}
    /\ raised = "none"
    /\ suspended = FALSE
    /\ resume_value = None
    /\ plan_iterations = 1
    /\ \E description \in PayloadDescriptions : \E query \in PayloadQueries :
          \/ /\ current_plan = PayloadPlan(<<PayloadStep(stage, None, description)>>)
             /\ observations = <<>>
             /\ state_messages = <<[role |-> "user", content |-> query]>>
          \/ \E res \in PayloadResults :
                /\ current_plan = PayloadPlan(
                       <<PayloadStep("researcher", res, StepDescription),
                         PayloadStep(stage, None, description)>>)
                /\ observations = <<res>>
                /\ state_messages =
                       <<[role |-> "user", content |-> query],
                         [type |-> "human", name |-> "researcher", content |-> res]>>
          \/ \E res \in PayloadResults :      \* no step is left to execute
                /\ current_plan = PayloadPlan(<<PayloadStep(stage, res, description)>>)
                /\ observations = <<res>>
                /\ state_messages =
                       <<[role |-> "user", content |-> query],
                         [type |-> "human", name |-> stage, content |-> res]>>
    /\ final_report = <<>>
    /\ locale = "en-US"
    /\ research_topic = UserQuery
    /\ background_investigation_results = None
    /\ auto_accepted_plan = TRUE
    /\ enable_background_investigation = FALSE
    /\ max_plan_iterations = MaxPlanLimit
    /\ MAX_CONTEXT_TOKENS \in PayloadBudgets
    /\ record_history = TRUE
    /\ ExecIdle
    /\ agent_calls = 0
    /\ exec_failures = <<>>
    /\ exec_outcome = "none"
    /\ res_writes = NoWrites
    /\ exec_calls = 0
    /\ edits = 0
    /\ planner_output = <<>>
    /\ planner_calls = 0
    /\ tc_messages = <<>>
    /\ tc_max_tokens = 0
    /\ tc_result = <<>>
    /\ tc_pc = "idle"
    /\ StreamIdle

PayloadNext ==
    \/ execute_agent_step_begin
    \/ \E response_content \in AgentResponses : agent_returns(response_content)
    \/ \E error_msg \in AgentErrors : agent_raises_context_length(error_msg)
    \/ \E error_msg \in AgentErrors : agent_raises_other(error_msg)
    \/ \E error_msg \in AgentErrors : final_attempt_raises(error_msg)

SpecPayload == PayloadInit /\ [][PayloadNext]_vars

\* one call of _astream_workflow_generator, in a process where other runs
\* may be registered
StreamInit ==
    /\ gen_pc = "start"
    /\ consumed = <<>>
    /\ events = <<>>
    /\ thread_registry \in SUBSET OtherThreads
    /\ current_context \in {NoContext} \cup thread_registry
    /\ found_context = NoContext
    /\ WfInit
    /\ record_history = TRUE
    /\ auto_accepted_plan
    /\ enable_background_investigation
    /\ max_plan_iterations = 1
    /\ tc_messages = <<>>
    /\ tc_max_tokens = 0
    /\ tc_result = <<>>
    /\ tc_pc = "idle"

StreamNext ==
    \/ generator_start
    \/ \E item \in StreamItems : astream_item(item)
    \/ client_next
    \/ astream_ends
    \/ astream_raises
    \/ client_abandons
    \/ \E thread \in OtherThreads : other_run_sets(thread)
    \/ \E thread \in OtherThreads : other_run_ends(thread)

SpecStream == StreamInit /\ [][StreamNext]_vars

(***************************************************************************)
(* Claims about truncate_context (specification SpecTruncate).             *)
(***************************************************************************)
Returned == Messages(tc_result)

\* the message of the input a returned entry was taken or derived from
Origin(e) == tc_messages[e.src]

Shortened(e) == e.msg # Origin(e)

Truncating == tc_pc = "done" /\ total_tokens(tc_messages) > tc_max_tokens

\* C1: for every message list and every budget, the estimated token cost of
\* the list truncate_context returns is at most the budget.
C1_BudgetRespected ==
    tc_pc = "done" => SumTokens(Returned) <= tc_max_tokens

\* C1 witness: an over-budget list of which truncate_context keeps a
\* shortened message and drops another.
C1_Witness ==
    /\ Truncating
    /\ \E i \in 1..Len(tc_result) : Shortened(tc_result[i])
    /\ Len(tc_result) < Len(tc_messages)
    /\ SumTokens(Returned) > 0

\* msg is the input message m, or m with its content shortened
DerivedFrom(msg, m) ==
    msg = m \/ msg = [m EXCEPT !.content = ShortenContent(m.content)]

RECURSIVE InOrder(_, _)
\* res can be matched, left to right, with messages of msgs at increasing positions
InOrder(res, msgs) ==
    IF res = <<>> THEN TRUE
    ELSE IF msgs = <<>> THEN FALSE
    ELSE \/ DerivedFrom(Head(res), Head(msgs)) /\ InOrder(Tail(res), Tail(msgs))
         \/ InOrder(res, Tail(msgs))

\* C2: the returned messages appear in the relative order of the input
\* messages they come from, a shortened message keeping the position of its
\* original.
C2_OrderPreserved ==
    tc_pc = "done" => InOrder(Returned, tc_messages)

\* C3: when the estimated cost of the input is already within the budget,
\* truncate_context returns exactly the input list.
C3_FittingListUnchanged ==
    (tc_pc = "done" /\ total_tokens(tc_messages) <= tc_max_tokens) =>
        /\ Returned = tc_messages
        /\ \A i \in 1..Len(tc_result) : tc_result[i].src = i

\* C3 witness: a list of several messages whose cost is exactly the budget.
C3_Witness ==
    /\ tc_pc = "done"
    /\ Len(tc_messages) >= 2
    /\ tc_max_tokens > 0
    /\ total_tokens(tc_messages) = tc_max_tokens
    /\ Returned = tc_messages

CountClass(class) ==
    Cardinality({i \in 1..Len(tc_messages) : Classify(tc_messages[i]) = class})

KeepsClass(class) ==
    \E i \in 1..Len(tc_result) : Classify(Origin(tc_result[i])) = class

\* C4: with one system message, one task message and "other" messages, over
\* budget in total, no "other" message is kept while the system message is
\* dropped.
C4_SystemKeptBeforeOther ==
    (/\ Truncating
     /\ CountClass("system") = 1
     /\ CountClass("task") = 1
     /\ KeepsClass("other")) => KeepsClass("system")

(***************************************************************************)
(* Claims about the step executor and the plan stages (specification Spec).*)
(***************************************************************************)
PlanSteps == Steps(current_plan)

NonEmpty(text) == ~Falsy(text)

\* the executor is between its entry and its return
Executing == exec_pc # "idle"

\* the steps whose execution_res the step from this state to the next changes
WrittenSteps ==
    {i \in 1..Len(PlanSteps) : PlanSteps[i].execution_res # PlanSteps'[i].execution_res}

\* C5: an invocation of the step executor claims at most one step, the first
\* in declaration order whose execution_res is unset; a step with a non-empty
\* execution_res is never claimed or overwritten.
C5_ClaimsFirstUnsetStep ==
    /\ [](Executing =>
            /\ current_step \in 1..Len(PlanSteps)
            /\ Falsy(PlanSteps[current_step].execution_res)
            /\ \A j \in 1..(current_step - 1) : NonEmpty(PlanSteps[j].execution_res))
    /\ [][(IsPlan(current_plan) /\ IsPlan(current_plan')
             /\ Len(PlanSteps') = Len(PlanSteps)) =>
            /\ Cardinality(WrittenSteps) <= 1
            /\ WrittenSteps \subseteq {current_step}
            /\ \A i \in 1..Len(PlanSteps) :
                   NonEmpty(PlanSteps[i].execution_res) => i \notin WrittenSteps]_vars

\* C5 witness: with the first step completed, the executor has claimed the second.
C5_Witness ==
    /\ Executing
    /\ current_step = 2
    /\ NonEmpty(PlanSteps[1].execution_res)

\* C6: between stage executions, the length of observations equals the number
\* of steps of the current plan that have execution_res set.
C6_ObservationsMatchCompleted ==
    ~Executing =>
        Len(observations) =
            Cardinality({i \in 1..Len(PlanSteps) : PlanSteps[i].execution_res # None})

\* C7: the step executor writes execution_res of a given step exactly once,
\* whatever text the agent returns for it.
C7_StepWrittenOnce ==
    \A i \in 1..Len(PlanSteps) :
        /\ res_writes[i] <= 1
        /\ (PlanSteps[i].execution_res # None) => res_writes[i] = 1

FirstThreeContext ==
    /\ Len(exec_failures) >= 3
    /\ \A k \in 1..3 : exec_failures[k] = "context"

\* the last executor invocation has ended, after three consecutive
\* context-length failures of the agent
EndedAfterThreeContext == ~Executing /\ FirstThreeContext

\* C8 as stated: three consecutive context-length failures give the
\* placeholder result.
C8_ThreeFailuresGivePlaceholder ==
    EndedAfterThreeContext => exec_outcome = "placeholder"

\* C8, amended: after three consecutive context-length failures the executor
\* makes a fourth invocation (minimal content); its response is the result if
\* it returns, the placeholder is the result if it raises, whatever it raises;
\* either way the result is written to the step and to observations, the call
\* routes to research_team and no exception propagates.
C8_FourthAttemptThenPlaceholder ==
    /\ [](exec_pc = "final" => (agent_calls = 3 /\ FirstThreeContext))
    /\ [](EndedAfterThreeContext =>
            /\ agent_calls = 4
            /\ exec_outcome \in {"result", "placeholder"}
            /\ (exec_outcome = "placeholder") = (Len(exec_failures) = 4)
            /\ (exec_outcome = "placeholder" =>
                   /\ observations # <<>>
                   /\ observations[Len(observations)] = PlaceholderText
                   /\ \E i \in 1..Len(PlanSteps) :
                          PlanSteps[i].execution_res = PlaceholderText))
    /\ [][(exec_pc = "final" /\ exec_pc' # "final") =>
            /\ stage' = "research_team"
            /\ raised' = "none"
            /\ Len(observations') = Len(observations) + 1
            /\ PlanSteps'[current_step].execution_res = observations'[Len(observations')]]_vars

\* C8 witness: four failures in a row, the placeholder is the step's result.
C8_Witness ==
    /\ EndedAfterThreeContext
    /\ Len(exec_failures) = 4
    /\ exec_outcome = "placeholder"
    /\ stage = "research_team"

\* C9: an exception of the agent that is no context-length failure is
\* propagated to the caller of the executor, on every attempt.
C9_OtherErrorsPropagate ==
    (/\ ~Executing
     /\ exec_failures # <<>>
     /\ exec_failures[Len(exec_failures)] = "other") =>
        (exec_outcome = "raised" /\ stage = "error")

\* C10: plan_iterations never decreases.
C10_PlanIterationsMonotonic ==
    [][plan_iterations' >= plan_iterations]_vars

\* C10 witness: a plan was accepted after an edit loop.
C10_Witness ==
    /\ plan_iterations = 1
    /\ edits >= 1
    /\ stage = "research_team"

(***************************************************************************)
(* Claims about the planner and human_feedback stages (specification Spec).*)
(***************************************************************************)
\* the step from this state to the next is an exit of human_feedback's accept
\* path: the plan was accepted by an [ACCEPTED] decision or by auto-accept
AcceptExit ==
    /\ stage = "human_feedback"
    /\ stage' \in {"research_team", "reporter", "end", "error"}
    /\ auto_accepted_plan \/ (resume_value # None /\ IsAccepted(resume_value))

\* C11: every exit of the accept path of human_feedback leaves the stored
\* plan_iterations exactly 1 higher than it was.
C11_AcceptIncrementsOnce ==
    [][AcceptExit => plan_iterations' = plan_iterations + 1]_vars

\* the step from this state to the next is a call of the planning model by
\* planner_node; planner_output' is the response it got
PlannerCall == stage = "planner" /\ plan_iterations < max_plan_iterations

\* the first pass of the run through planner
FirstPass == edits = 0 /\ plan_iterations = 0

\* the response parses, and the parsed object has has_enough_context = true
EnoughContext(response) ==
    response # <<>> /\ JsonLoads(response) /\ response.has_enough_context = "true"

\* C12 as stated: whenever the parsed output of the first planner pass has
\* has_enough_context = true, the run goes straight to reporter with a
\* validated Plan and plan_iterations 0.
C12_EnoughContextToReporter ==
    [][(PlannerCall /\ FirstPass /\ EnoughContext(planner_output')) =>
          /\ stage' = "reporter"
          /\ IsPlan(current_plan')
          /\ plan_iterations' = 0]_vars

\* C12, amended: the above holds when the parsed output validates as a Plan;
\* the Plan stored is the validated output, human_feedback is not entered and
\* nothing is suspended.  When it does not validate, the planner raises the
\* validation error: no stage follows and the state is unchanged.
C12_ValidEnoughContextToReporter ==
    [][(PlannerCall /\ FirstPass /\ EnoughContext(planner_output')) =>
          IF planner_output'.valid
          THEN /\ stage' = "reporter"
               /\ raised' = "none"
               /\ ~suspended'
               /\ current_plan' = ValidatedPlan(planner_output')
               /\ IsPlan(current_plan')
               /\ current_plan'.has_enough_context
               /\ plan_iterations' = 0
          ELSE /\ stage' = "error"
               /\ raised' = "ValidationError"
               /\ UNCHANGED statevars]_vars

\* C12 witness: the first planner pass got a valid plan with enough context;
\* reporter is next, the plan is validated, nothing was counted.
C12_Witness ==
    /\ stage = "reporter"
    /\ FirstPass
    /\ EnoughContext(planner_output)
    /\ planner_output.valid
    /\ IsPlan(current_plan)
    /\ current_plan = ValidatedPlan(planner_output)
    /\ final_report = <<>>

\* text starts with the directive tag, whatever the case of its letters
HasDirective(text, tag) ==
    Len(text) >= Len(tag) /\ Upper(SubSeq(text, 1, Len(tag))) = tag

\* human_feedback is about to run with a resume decision
Resumed == stage = "human_feedback" /\ resume_value # None

LastMessage(msgs) == msgs[Len(msgs)]

\* C13: a resume decision that starts with [EDIT_PLAN] (in any case) routes
\* from human_feedback to planner, appends exactly one user-tagged message
\* whose content is the whole decision text, and leaves plan_iterations,
\* current_plan and observations unchanged.
C13_EditRoutesToPlanner ==
    [][(Resumed /\ HasDirective(resume_value, EditPlanTag)) =>
          /\ stage' = "planner"
          /\ raised' = "none"
          /\ Len(state_messages') = Len(state_messages) + 1
          /\ SubSeq(state_messages', 1, Len(state_messages)) = state_messages
          /\ LastMessage(state_messages').type = "human"
          /\ LastMessage(state_messages').content = resume_value
          /\ UNCHANGED <<plan_iterations, current_plan, observations>>]_vars

\* C13 witness: the decision "[edit_plan] q", in lower case, sent the run back
\* to planner with the decision as the last message.
C13_Witness ==
    /\ stage = "planner"
    /\ edits = 1
    /\ resume_value = None
    /\ LastMessage(state_messages).type = "human"
    /\ LastMessage(state_messages).content # EditPlanTag
    /\ LastMessage(state_messages).content # Upper(LastMessage(state_messages).content)
    /\ HasDirective(LastMessage(state_messages).content, EditPlanTag)
    /\ current_plan.tag = "raw"

\* C14: a resume decision that starts with neither [EDIT_PLAN] nor [ACCEPTED]
\* (in any case), the empty decision included, makes human_feedback raise:
\* no next stage is selected and no field of the state changes.
C14_UnsupportedDecisionIsFatal ==
    [][(/\ Resumed
        /\ ~HasDirective(resume_value, EditPlanTag)
        /\ ~HasDirective(resume_value, AcceptedTag)) =>
          /\ stage' = "error"
          /\ raised' = "TypeError"
          /\ ~suspended'
          /\ UNCHANGED statevars]_vars

\* C14 witness: the run ended with the TypeError of an unsupported decision,
\* the plan still the raw text under review.
C14_Witness ==
    /\ stage = "error"
    /\ raised = "TypeError"
    /\ resume_value = None
    /\ current_plan.tag = "raw"
    /\ plan_iterations = 0
    /\ LastMessage(state_messages).type = "ai"

(***************************************************************************)
(* Claims about the research_team dispatcher (specification Spec).         *)
(***************************************************************************)
\* the step the step executor would claim in this state, 0 if none
NextStep == FirstUnexecutedStep(PlanSteps)

\* C15: the research_team dispatcher changes nothing in the state; when the
\* plan has an unexecuted step it routes to the agent of the first one, and
\* when it has none it routes to reporter.
C15_DispatcherRoutes ==
    [][stage = "research_team" =>
          /\ UNCHANGED statevars
          /\ raised' = "none"
          /\ IF NextStep = 0
             THEN stage' = "reporter"
             ELSE /\ stage' = PlanSteps[NextStep].agent
                  /\ stage' \in {"researcher", "coder"}]_vars

\* C15 witness: the first step is completed and the second is not; the
\* dispatcher chose the agent of the second, a coder.
C15_Witness ==
    /\ stage = "coder"
    /\ ~Executing
    /\ Len(PlanSteps) = 2
    /\ NonEmpty(PlanSteps[1].execution_res)
    /\ NextStep = 2
    /\ PlanSteps[2].agent = "coder"
    /\ exec_outcome = "result"

(***************************************************************************)
(* Claims about plan parsing and suspension (specification Spec).          *)
(***************************************************************************)
\* C17: when the planning model's output cannot be repaired and parsed as
\* JSON, the planner routes to reporter if plan_iterations > 0 and ends the
\* run, with no report, otherwise; either way it changes no field of the
\* state.
C17_ParseFailureRoutes ==
    [][(PlannerCall /\ ~JsonLoads(planner_output')) =>
          /\ raised' = "none"
          /\ UNCHANGED statevars
          /\ IF plan_iterations > 0
             THEN stage' = "reporter"
             ELSE stage' = "end" /\ final_report' = <<>>]_vars

\* C17 witness: the planner's output did not parse in a run that had accepted
\* no plan yet; the run ended without a report and without a plan.
C17_Witness ==
    /\ stage = "end"
    /\ planner_output = NotJson
    /\ plan_iterations = 0
    /\ final_report = <<>>
    /\ raised = "none"

\* the Plan that validation makes of the last output of the planning model,
\* with the results its steps have in current_plan
ValidatedOutput ==
    [ValidatedPlan(planner_output) EXCEPT
        !.steps = [i \in 1..Len(planner_output.steps) |->
                      [@[i] EXCEPT !.execution_res = PlanSteps[i].execution_res]]]

\* C18: current_plan is None, raw plan text, or a validated Plan (the output
\* of the planning model, which validation accepted), never a parsed but
\* unvalidated structure; every transition from human_feedback to
\* research_team stores the validated Plan of the raw text under review.
C18_PlanNoneRawOrValidated ==
    /\ [](/\ current_plan.tag \in {"none", "raw", "plan"}
          /\ current_plan.tag = "raw" => current_plan.response \in PlannerResponses
          /\ IsPlan(current_plan) =>
                /\ planner_output \in PlannerResponses
                /\ JsonLoads(planner_output)
                /\ planner_output.valid
                /\ Len(PlanSteps) = Len(planner_output.steps)
                /\ current_plan = ValidatedOutput)
    /\ [][(stage = "human_feedback" /\ stage' = "research_team") =>
            /\ current_plan.tag = "raw"
            /\ current_plan.response.valid
            /\ IsPlan(current_plan')
            /\ current_plan' = ValidatedPlan(current_plan.response)]_vars

\* C18 witness: human_feedback has just accepted a plan of two steps; the
\* validated Plan is stored and research_team is next.
C18_Witness ==
    /\ stage = "research_team"
    /\ IsPlan(current_plan)
    /\ Len(PlanSteps) = 2
    /\ plan_iterations = 1
    /\ exec_calls = 0

\* C19: while a run is suspended in human_feedback no stage runs, no agent is
\* invoked and the state is kept; the only step is the resume, which hands the
\* decision to human_feedback with the stage and the state as they were at the
\* suspension.
C19_SuspensionPreservesState ==
    /\ [](suspended => (stage = "human_feedback" /\ ~Executing /\ resume_value = None))
    /\ [](resume_value # None => (stage = "human_feedback" /\ ~suspended))
    /\ [][(~suspended /\ suspended') => UNCHANGED <<stage, statevars>>]_vars
    /\ [][suspended =>
            /\ ~suspended'
            /\ resume_value' \in Feedbacks
            /\ stage' = "human_feedback"
            /\ UNCHANGED <<statevars, agent_calls, exec_calls, planner_output>>]_vars

\* C19 witness: a run that was sent back to the planner once is resumed a
\* second time; the decision is pending at human_feedback, with the messages
\* and the raw plan accumulated so far.
C19_Witness ==
    /\ resume_value \in Feedbacks
    /\ stage = "human_feedback"
    /\ edits = 1
    /\ current_plan.tag = "raw"
    /\ Len(state_messages) >= 4

(***************************************************************************)
(* Claims about the generator of the event stream (specification           *)
(* SpecStream).                                                            *)
(***************************************************************************)
\* an item that has an event: an interrupt update, a tool-result message or
\* an AI message delta
Qualifying(c) ==
    \/ c.item.type = "dict" /\ c.item.interrupt
    \/ c.item.type = "ToolMessage"
    \/ c.item.type = "AIMessageChunk"

\* C16: the events yielded are, in order, one event for each qualifying item
\* delivered so far and none for any other item; a step adds at most one
\* event, at the end, and only when it takes a qualifying item from the
\* stream.
C16_OneEventPerQualifyingItem ==
    /\ [](LET q == SelectSeq(consumed, Qualifying)
          IN  /\ Len(events) = Len(q)
              /\ \A k \in 1..Len(q) :
                    /\ events[k].src = q[k].seq
                    /\ events[k].id = q[k].item.id)
    /\ [][/\ Len(events') <= Len(events) + 1
          /\ SubSeq(events', 1, Len(events)) = events
          /\ (events' # events) =>
                /\ Len(consumed') = Len(consumed) + 1
                /\ Qualifying(consumed'[Len(consumed')])]_vars

\* C16 witness: three items were delivered, the second of them with no event
\* of its own; the two events are those of the first and the third.
C16_Witness ==
    /\ Len(consumed) = 3
    /\ ~Qualifying(consumed[2])
    /\ Len(events) = 2
    /\ events[1].src = 1
    /\ events[2].src = 3
    /\ events[1].event = "interrupt"

\* the generator has ended, in one of the ways it can
GeneratorEnded == gen_pc \in {"done", "raised", "closed"}

\* C20: however the generator ends (the stream is exhausted, graph.astream
\* raises, the client abandons the stream), no registry entry and no current
\* context of its thread_id remains.
C20_ContextClearedAtEnd ==
    GeneratorEnded => (ThreadId \notin thread_registry /\ current_context # ThreadId)


\* C22 as stated: within one invocation of the step executor the agent is
\* invoked at most 3 times.
C22_AtMostThreeInvocations == agent_calls <= 3

\* C22, amended: within one invocation of the step executor the agent is
\* invoked at most 4 times (the first attempt, two attempts on shortened
\* content, one final attempt on the minimal content), whatever sequence of
\* context-length failures the agent produces.
C22_AtMostFourInvocations == agent_calls <= 4

\* C22 witness: an invocation of the executor that has called the agent four
\* times, the first three calls failing on the context length.
C22_Witness ==
    /\ agent_calls = 4
    /\ FirstThreeContext
    /\ ~Executing


\* planner_node is entered with the iteration count at or over the limit
AtLimit == stage = "planner" /\ plan_iterations >= max_plan_iterations

\* C29: whenever planner is entered with plan_iterations >= the configured
\* max_plan_iterations it routes to reporter, the planning model is not
\* invoked, and messages, current_plan and plan_iterations are unchanged.
C29_LimitSkipsPlanning ==
    [][AtLimit =>
          /\ stage' = "reporter"
          /\ raised' = raised
          /\ planner_calls' = planner_calls
          /\ planner_output' = planner_output
          /\ state_messages' = state_messages
          /\ current_plan' = current_plan
          /\ plan_iterations' = plan_iterations]_vars

\* C29 witness: the planner was entered at the limit and the run is at
\* reporter with no plan and no model call made.
C29_Witness ==
    /\ stage = "reporter"
    /\ plan_iterations >= max_plan_iterations
    /\ planner_calls = 0
    /\ current_plan = NoPlan


\* a visit of human_feedback in a run that accepts plans automatically
AutoVisit == stage = "human_feedback" /\ auto_accepted_plan

\* the part of C30 about suspension: a run with auto_accepted_plan is never
\* suspended and interrupt() never returns a decision in it
AutoNeverSuspends ==
    auto_accepted_plan => (~suspended /\ resume_value = None)

\* C30: a run with auto_accepted_plan never suspends, and every visit of
\* human_feedback proceeds at once as an acceptance: the plan is parsed,
\* plan_iterations is incremented and the run is routed to research_team or
\* to reporter.
C30_AutoAcceptProceeds ==
    /\ []AutoNeverSuspends
    /\ [][AutoVisit =>
            /\ ~suspended'
            /\ IsPlan(current_plan')
            /\ plan_iterations' = plan_iterations + 1
            /\ stage' \in {"research_team", "reporter"}]_vars


\* human_feedback is about to accept a stored plan text that does not parse:
\* the plan is accepted automatically or by an [ACCEPTED] decision
AcceptsUnparsable ==
    /\ stage = "human_feedback"
    /\ current_plan.tag = "raw"
    /\ ~current_plan.response.json
    /\ \/ auto_accepted_plan
       \/ resume_value # None /\ HasDirective(resume_value, AcceptedTag)

\* C28: when human_feedback accepts a plan whose stored text does not parse as
\* JSON, the run ends with no report if plan_iterations was 0 before the
\* accept, and is routed to reporter only if plan_iterations was over 0.
C28_ParseFailureFollowsCount ==
    [][AcceptsUnparsable =>
          IF plan_iterations = 0
          THEN stage' = "end" /\ final_report' = <<>>
          ELSE stage' = "reporter"]_vars


(***************************************************************************)
(* Claims about the filling of the classes (specification SpecTruncate).   *)
(***************************************************************************)
RECURSIVE AcceptedTokens(_, _)
\* the estimated cost of the entries accepted from the given classes
AcceptedTokens(entries, classes) ==
    IF entries = <<>> THEN 0
    ELSE (IF Classify(tc_messages[Head(entries).src]) \in classes
          THEN estimate_tokens(Head(entries).msg.content)
          ELSE 0) + AcceptedTokens(Tail(entries), classes)

\* the messages of a class in the order the code offers them
Offered(class) ==
    CASE class = "system" -> system_messages(tc_messages)
      [] class = "task" -> task_messages(tc_messages)
      [] OTHER -> Reversed(other_messages(tc_messages))

\* the classes filled before a class
EarlierClasses(class) ==
    CASE class = "system" -> {}
      [] class = "task" -> {"system"}
      [] OTHER -> {"system", "task"}

\* the cost of a message once the code has shortened it, if it does, when
\* remaining is what is left of the sub-budget
CostAsOffered(content, remaining) ==
    IF 5 * estimate_tokens(content) > 4 * remaining
    THEN estimate_tokens(ShortenContent(content))
    ELSE estimate_tokens(content)

Kept(src) == \E i \in 1..Len(tc_result) : tc_result[i].src = src

\* C26: with sub-budget T and c tokens accepted from the earlier classes, the
\* first message of the next class, of cost m after its shortening if any, is
\* accepted whenever c + m <= T.
C26_ClassFilledAgainstRemainder ==
    Truncating =>
        \A class \in {"task", "other"} :
            LET T == (7 * tc_max_tokens) \div 10
                c == AcceptedTokens(tc_result, EarlierClasses(class))
            IN  Offered(class) # <<>> =>
                    LET e == Head(Offered(class))
                        m == CostAsOffered(e.msg.content, T - c)
                    IN  c + m <= T => Kept(e.src)


\* the positions of the "other" messages of the input
OtherPositions == {i \in 1..Len(tc_messages) : Classify(tc_messages[i]) = "other"}

\* C27: the retained "other" messages are the most recent ones: if an "other"
\* message is retained, so is every "other" message later in the input.
C27_OtherKeepsRecentSuffix ==
    tc_pc = "done" =>
        \A i \in OtherPositions : \A j \in OtherPositions :
            (i < j /\ Kept(i)) => Kept(j)

\* C27 witness: an over-budget input of which the later "other" messages are
\* retained and an earlier one is dropped.
C27_Witness ==
    /\ Truncating
    /\ \E i \in OtherPositions : \E j \in OtherPositions :
           i < j /\ ~Kept(i) /\ Kept(j)
    /\ \E i \in OtherPositions : \E j \in OtherPositions :
           i < j /\ Kept(i) /\ Kept(j)


(***************************************************************************)
(* Claims about the payload of the agent (specification SpecPayload).      *)
(***************************************************************************)
\* a step of the retry loop that shortens the primary content: a
\* context-length failure that is not the last one
NonFinalRetry ==
    /\ exec_pc = "invoke"
    /\ exec_pc' = "invoke"
    /\ retry_count' = retry_count + 1

Min(a, b) == IF a < b THEN a ELSE b

\* C23: on each retry that is not the final one, the primary content is
\* strictly shorter after the retry (marker included) than before whenever it
\* was longer than 1000 characters, and it keeps a prefix of the previous
\* content of at least min(1000, previous length) characters.
C23_RetryShrinks ==
    [][NonFinalRetry =>
          LET before == agent_input[1]
              after == agent_input'[1]
              kept == Min(1000, Len(before))
          IN  /\ Len(before) > 1000 => Len(after) < Len(before)
              /\ Len(after) >= kept
              /\ SubSeq(after, 1, kept) = SubSeq(before, 1, kept)]_vars


RECURSIVE PayloadTokens(_)
\* the estimated token cost of the messages of a payload
PayloadTokens(contents) ==
    IF contents = <<>> THEN 0
    ELSE estimate_tokens(Head(contents)) + PayloadTokens(Tail(contents))

\* the executor is about to invoke the agent for the first time
FirstInvocation == exec_pc = "invoke" /\ agent_calls = 0

\* C24: at the first agent invocation of every executor call the estimated
\* token cost of the payload is at most MAX_CONTEXT_TOKENS.
C24_FirstPayloadWithinBudget ==
    FirstInvocation => PayloadTokens(agent_input) <= MAX_CONTEXT_TOKENS


\* what truncate_context returned to the executor invocation under way
TruncatedNow ==
    truncated_parts(current_plan.steps, current_step, locale, state_messages,
                    observations, MAX_CONTEXT_TOKENS)

\* truncate_context did not retain the current-task message
TaskDropped ==
    LET truncated_context == TruncatedNow
    IN  \A k \in 1..Len(truncated_context) :
            truncated_context[k].type # "current_task"

EndsWith(text, suffix) ==
    /\ Len(text) >= Len(suffix)
    /\ SubSeq(text, Len(text) - Len(suffix) + 1, Len(text)) = suffix

\* C25: whenever truncate_context does not retain the current-task message,
\* be its result other messages or the empty list, the primary content of the
\* payload is the minimal task description (title and description of the
\* step), not the task message built first.
C25_DroppedTaskGivesMinimal ==
    (FirstInvocation /\ TaskDropped) =>
        /\ EndsWith(agent_input[1], minimal_task(current_plan.steps[current_step]))
        /\ ~Contains(agent_input[1], TaskHeader)


(***************************************************************************)
(* Termination of a run (specification SpecLive).                          *)
(***************************************************************************)
\* the three outcomes of a run
Completed == stage = "end" /\ final_report # <<>>
EndedEarly == stage = "end" /\ final_report = <<>>
Failed == stage = "error" /\ raised # "none"

\* C21: provided every invocation of a model or an agent returns and every
\* suspension is resumed with a decision, every run eventually ends, completed
\* with a final report, ended early without one, or failed with an error: no
\* run goes round planner, human_feedback, research_team, researcher and
\* coder for ever.
C21_RunEnds == <>(Completed \/ EndedEarly \/ Failed)


\* C21, for the runs whose plan is accepted without a suspension (no edit
\* decision is ever given): these end too.
C21_AutoAcceptedRunEnds == auto_accepted_plan => C21_RunEnds

(***************************************************************************)
(* estimate_tokens (specification SpecEstimate).                           *)
(***************************************************************************)
\* the text whose tokens are estimated
EstimatedText == tc_messages[1].content

\* the text has a code fence or one of the keywords "def " and "class "
LooksLikeCode ==
    \E i \in 1..Len(EstimatedText) :
        \/ /\ i + 2 <= Len(EstimatedText)
           /\ \A k \in 0..2 : EstimatedText[i + k] = "U0060"
        \/ /\ i + 3 <= Len(EstimatedText)
           /\ <<EstimatedText[i], EstimatedText[i + 1], EstimatedText[i + 2],
                EstimatedText[i + 3]>> = <<"d", "e", "f", " ">>
        \/ /\ i + 5 <= Len(EstimatedText)
           /\ [k \in 1..6 |-> EstimatedText[i + k - 1]] = <<"c", "l", "a", "s", "s", " ">>

\* the characters of the text in U+4E00..U+9FFF outnumber the others
MostlyCJK ==
    LET cjk == Cardinality({i \in 1..Len(EstimatedText) : EstimatedText[i] \in CJKChars})
    IN  2 * cjk > Len(EstimatedText)

\* n = floor(2 * len / d), i.e. floor(len / (d / 2)), for d = 6, 3 and 8
IsFloorOf(n, len, d) == d * n <= 2 * len /\ 2 * len < d * (n + 1)

\* C35: estimate_tokens returns a non-negative integer: 0 for the empty text,
\* floor(len / 3) for a text with a code fence or the keyword "def " or
\* "class " (whatever its CJK characters), else floor(len / 1.5) when the CJK
\* characters strictly outnumber the others, else floor(len / 4).
C35_EstimateByKind ==
    LET n == estimate_tokens(EstimatedText)
        len == Len(EstimatedText)
    IN  /\ n \in Nat
        /\ len = 0 => n = 0
        /\ len > 0 /\ LooksLikeCode => IsFloorOf(n, len, 6)
        /\ len > 0 /\ ~LooksLikeCode /\ MostlyCJK => IsFloorOf(n, len, 3)
        /\ len > 0 /\ ~LooksLikeCode /\ ~MostlyCJK => IsFloorOf(n, len, 8)

\* a text with a code fence whose CJK characters are the majority has been
\* estimated, at the rate of code
C35_Witness ==
    /\ tc_pc = "done"
    /\ LooksLikeCode
    /\ MostlyCJK
    /\ estimate_tokens(EstimatedText) = Len(EstimatedText) \div 3
    /\ Len(EstimatedText) \div 3 # (2 * Len(EstimatedText)) \div 3


(***************************************************************************)
(* truncate_context applied to its own result (specification SpecTruncate).*)
(***************************************************************************)
\* truncate_context(messages, budget), budget)
TruncatedAgain == Messages(truncate_context(Returned, tc_max_tokens))

\* C39: truncate_context is idempotent: applied with the same budget to the
\* list it returned, it returns that list.
C39_Idempotent == tc_pc = "done" => TruncatedAgain = Returned


\* a list was truncated to a non-empty list with a shortened message in it, and
\* truncating that list again returns it
C39_Witness ==
    /\ tc_pc = "done"
    /\ Returned # tc_messages
    /\ \E i \in 1..Len(tc_result) : tc_result[i].msg # tc_messages[tc_result[i].src]
    /\ TruncatedAgain = Returned


(***************************************************************************)
(* coordinator_node (specification Spec).                                  *)
(***************************************************************************)
\* the decision holds a handoff: a call of the tool handoff_to_planner
HasHandoff(tool_calls) ==
    \E i \in 1..Len(tool_calls) : tool_calls[i].name = "handoff_to_planner"

\* the payload of the (first) handoff of the decision
HandoffPayload(tool_calls) ==
    tool_calls[CHOOSE i \in 1..Len(tool_calls) :
                   /\ tool_calls[i].name = "handoff_to_planner"
                   /\ \A j \in 1..(i - 1) : tool_calls[j].name # "handoff_to_planner"]

\* what the claim says of the step the coordinator takes on this decision
RoutedAsClaimed(tool_calls) ==
    IF ~HasHandoff(tool_calls)
    THEN stage' = "end"
    ELSE /\ stage' = (IF enable_background_investigation
                      THEN "background_investigator" ELSE "planner")
         /\ locale' = (IF HandoffPayload(tool_calls).locale # ""
                       THEN HandoffPayload(tool_calls).locale ELSE locale)
         /\ research_topic' = (IF HandoffPayload(tool_calls).research_topic # <<>>
                               THEN HandoffPayload(tool_calls).research_topic
                               ELSE research_topic)

\* C34: the coordinator ends the run when its decision holds no handoff, and
\* otherwise goes to background_investigator if background investigation is
\* enabled and to planner if not; on a handoff locale and research_topic each
\* become the value of the payload when it is there and stay as they are in
\* the state when it is not.
C34_CoordinatorRoutes ==
    [][\A tool_calls \in CoordinatorResponses :
           coordinator_node(tool_calls) => RoutedAsClaimed(tool_calls)]_vars

\* C34 for the decisions without any tool call and for the handoffs that give
\* both values (on these the code does as the claim says)
C34_PlainDecisions ==
    [][\A tool_calls \in {<<>>, <<Handoff("zh-CN", <<"t">>)>>} :
           coordinator_node(tool_calls) => RoutedAsClaimed(tool_calls)]_vars


(***************************************************************************)
(* The plan the reporter is given (specifications Spec and SpecFeedback).  *)
(***************************************************************************)
\* C37: whenever the reporter stage is entered, current_plan is a validated
\* Plan, never None and never the raw text of a plan, on every path into
\* reporter.
C37_ReporterGivenPlan == stage = "reporter" => current_plan.tag = "plan"

\* C37 for the paths into reporter from planner with has_enough_context, from
\* human_feedback with sufficient context and from research_team (those that
\* store a plan before they go to reporter)
C37_PlanStoredOnEntry ==
    [][stage # "reporter" /\ stage' = "reporter" /\ current_plan' # current_plan
           => current_plan'.tag = "plan"]_vars


(***************************************************************************)
(* Invocations of the planning model in one run (specification Spec).      *)
(***************************************************************************)
\* C38: within one run the planning model is invoked at most
\* max_plan_iterations times, whatever the human decisions are, repeated
\* [EDIT_PLAN] decisions included.
C38_CallsWithinLimit == planner_calls <= max_plan_iterations

\* C38, amended: within one run the planning model is invoked at most
\* max_plan_iterations times plus once more for every [EDIT_PLAN] decision
\* that sent the run back from human_feedback to planner.
C38_CallsWithinLimitAndEdits == planner_calls <= max_plan_iterations + edits

\* after an [EDIT_PLAN] decision the planning model has been invoked a second
\* time, in a run limited to one plan iteration
C38_Witness ==
    /\ max_plan_iterations = 1
    /\ edits = 1
    /\ planner_calls = 2


(***************************************************************************)
(* Executor invocations that end without a result (specification           *)
(* SpecPayload).                                                           *)
(***************************************************************************)
\* this step ends an invocation of the executor by an exception
EndsByException == stage \in {"researcher", "coder"} /\ stage' = "error"

\* this step is an invocation of the executor that finds no step to execute
\* (it returns to research_team without having invoked the agent)
FindsNoStep ==
    /\ stage \in {"researcher", "coder"}
    /\ exec_pc = "idle"
    /\ stage' = "research_team"

\* C40: an invocation of the Step Executor that ends by an exception, or that
\* finds no unexecuted step, leaves the state of the workflow as it was: no
\* execution_res is set and nothing is appended to observations or messages.
C40_NoResultNoUpdate ==
    [][EndsByException \/ FindsNoStep
           => /\ current_plan' = current_plan
              /\ observations' = observations
              /\ state_messages' = state_messages]_vars

\* the agent raised an error that is no context-length error, after the step
\* had been claimed, and the invocation ended with it
C40_Witness ==
    /\ stage = "error"
    /\ raised = "AgentError"
    /\ exec_outcome = "raised"
    /\ agent_calls >= 1
    /\ \E i \in 1..Len(current_plan.steps) : current_plan.steps[i].execution_res = None

\* an invocation has found every step executed and has returned to research_team
C40_NoStepWitness ==
    /\ stage = "research_team"
    /\ exec_outcome = "no_work"
    /\ agent_calls = 0


(***************************************************************************)
(* The options of the interrupt event as resume decisions (specification   *)
(* Spec).                                                                  *)
(***************************************************************************)
\* human_feedback is about to consume the decision it was resumed with
DecisionPending == stage = "human_feedback" /\ ~suspended /\ resume_value # None

\* C36: each option value offered in an interrupt event (edit_plan, accepted),
\* sent back as the interrupt feedback of a resume request, becomes a resume
\* decision that human_feedback recognizes: edit_plan routes to planner,
\* accepted is taken as an acceptance, and neither is a fatal input error.
C36_OptionsRecognized ==
    [][DecisionPending =>
           /\ resume_value = resume_msg(EditPlanOption, RequestMessages)
                  => stage' = "planner" /\ raised' = "none"
           /\ resume_value = resume_msg(AcceptedOption, RequestMessages)
                  => stage' # "planner" /\ raised' # "TypeError"
                     /\ state_messages' = state_messages]_vars

\* the option edit_plan was sent back and the run has returned to planner with
\* the decision appended to messages
C36_Witness ==
    /\ stage = "planner"
    /\ edits = 1
    /\ raised = "none"
    /\ state_messages[Len(state_messages)].name = "feedback"
    /\ state_messages[Len(state_messages)].content = resume_msg(EditPlanOption, RequestMessages)



\* the item an event was made of
ItemOf(e) == consumed[e.src].item

\* C32: an event has no content field exactly when the content of its item is
\* the empty string; no event carries an empty content, and a non-empty
\* content is carried unchanged.
C32_EmptyContentDropped ==
    \A k \in 1..Len(events) :
        /\ (events[k].content = None) <=> (ItemOf(events[k]).content = <<>>)
        /\ events[k].content # <<>>
        /\ ItemOf(events[k]).content # <<>>
              => events[k].content = ItemOf(events[k]).content

\* C32 witness: an event without content made of an empty delta, and an event
\* that carries the content of its delta.
C32_Witness ==
    /\ \E k \in 1..Len(events) :
          /\ ItemOf(events[k]).type = "AIMessageChunk"
          /\ ItemOf(events[k]).content = <<>>
          /\ events[k].content = None
    /\ \E k \in 1..Len(events) :
          /\ ItemOf(events[k]).type = "AIMessageChunk"
          /\ events[k].content = <<"x">>



\* C31: the kind of an event is determined by its item: an interrupt update
\* gives interrupt; a tool-result message gives tool_call_result with the
\* tool_call_id of the message; an AI delta with a complete tool call gives
\* tool_calls, whether or not it has chunks too; an AI delta with chunks only
\* gives tool_call_chunks; any other AI delta gives message_chunk. An event
\* other than interrupt carries the thread id of the run, the name of the
\* agent and the id of the message.
C31_KindByItem ==
    \A k \in 1..Len(events) :
        LET e == events[k]
            item == ItemOf(events[k])
        IN  /\ (item.type = "dict" /\ item.interrupt) => e.event = "interrupt"
            /\ item.type = "ToolMessage"
                  => /\ e.event = "tool_call_result"
                     /\ e.tool_call_id = item.tool_call_id
                     /\ e.tool_call_id # Absent
            /\ (item.type = "AIMessageChunk" /\ item.tool_calls)
                  => e.event = "tool_calls"
            /\ (item.type = "AIMessageChunk" /\ ~item.tool_calls /\ item.tool_call_chunks)
                  => e.event = "tool_call_chunks"
            /\ (item.type = "AIMessageChunk" /\ ~item.tool_calls /\ ~item.tool_call_chunks)
                  => e.event = "message_chunk"
            /\ e.event # "interrupt"
                  => /\ e.thread_id = ThreadId
                     /\ e.agent = item.agent
                     /\ e.agent # Absent
                     /\ e.id = item.id

\* C31 witness: a tool_calls event made of a delta that has chunks as well, a
\* tool_call_chunks event and a tool_call_result event with its tool_call_id.
C31_Witness ==
    /\ \E k \in 1..Len(events) :
          /\ events[k].event = "tool_calls"
          /\ ItemOf(events[k]).tool_calls
          /\ ItemOf(events[k]).tool_call_chunks
    /\ \E k \in 1..Len(events) :
          /\ events[k].event = "tool_call_chunks"
          /\ ~ItemOf(events[k]).tool_calls
    /\ \E k \in 1..Len(events) :
          /\ events[k].event = "tool_call_result"
          /\ events[k].tool_call_id = "call-1"



\* C33: with other runs active and their steps interleaved with those of this
\* run in any order, whenever an item of this run is translated, and whenever
\* an event of it is yielded, the current thread context is that of this run.
C33_OwnContextAtEmission ==
    [][/\ consumed' # consumed => current_context' = ThreadId
       /\ events' # events => current_context' = ThreadId]_vars

\* C33 witness: an item of this run arrived while the context was that of
\* another run, which is still active; its event was yielded under the
\* context of this run.
C33_Witness ==
    /\ gen_pc = "yield"
    /\ events # <<>>
    /\ events[Len(events)].src = Len(consumed)
    /\ found_context \in OtherThreads
    /\ OtherThreads \cap thread_registry # {}
    /\ current_context = ThreadId

====
